---- MODULE Spec2Model ----
(***************************************************************************)
(* Model of researchtopodcast's script engine: the data model of           *)
(* script_engine/persona.py and the planner of script_engine/planner.py    *)
(* (generate_script, the two response parsers and the timing-fit step).    *)
(*                                                                         *)
(* Text is modelled as it is: a string is a sequence of one-character      *)
(* strings, and strip, split, startswith and join work on the characters.  *)
(* Durations are the exact rationals words * 60 / 150; comparisons are     *)
(* cross-multiplied so that they stay in the integers.                     *)
(***************************************************************************)
EXTENDS Integers, Sequences, FiniteSets, TLC

(***************************************************************************)
(* Bounds of the model                                                     *)
(***************************************************************************)
\* lines of a body response
MaxLines == 3
\* segments of a script handed to the timing-fit step directly
MaxSegs == 3
\* largest target duration (seconds) of a generate_script call
MaxTarget == 2
\* largest target duration (seconds) handed to the timing-fit step directly
MaxFitTarget == 8
\* how far over the API's minimum the target durations of a body request go
MaxOverMin == 5

(***************************************************************************)
(* Strings: str.strip, str.split, str.startswith, str.join                 *)
(***************************************************************************)
Whitespace == {" ", "\n"}

NL == "\n"

RECURSIVE LStrip(_, _)
LStrip(s, chars) ==
  IF s # <<>> /\ Head(s) \in chars THEN LStrip(Tail(s), chars) ELSE s

RECURSIVE RStrip(_, _)
RStrip(s, chars) ==
  IF s # <<>> /\ s[Len(s)] \in chars
    THEN RStrip(SubSeq(s, 1, Len(s) - 1), chars)
    ELSE s

\* s.strip(chars)
StripChars(s, chars) == RStrip(LStrip(s, chars), chars)

\* s.strip()
Strip(s) == StripChars(s, Whitespace)

\* s.startswith(p)
StartsWith(s, p) == Len(p) <= Len(s) /\ SubSeq(s, 1, Len(p)) = p

\* s.split(sep) for a non-empty separator: always at least one piece
RECURSIVE SplitAcc(_, _, _)
SplitAcc(s, sep, cur) ==
  IF s = <<>> THEN <<cur>>
  ELSE IF StartsWith(s, sep)
    THEN <<cur>> \o SplitAcc(SubSeq(s, Len(sep) + 1, Len(s)), sep, <<>>)
    ELSE SplitAcc(Tail(s), sep, Append(cur, Head(s)))

Split(s, sep) == SplitAcc(s, sep, <<>>)

\* sep.join(parts)
RECURSIVE Join(_, _)
Join(parts, sep) ==
  IF parts = <<>> THEN <<>>
  ELSE IF Len(parts) = 1 THEN parts[1]
  ELSE parts[1] \o sep \o Join(Tail(parts), sep)

\* len(s.split()) as a bug would write it: every white-space character
\* taken for a separator between two words
RECURSIVE CountWordsBySeparator(_, _)
CountWordsBySeparator(s, inword) ==
  IF s = <<>> THEN 1
  ELSE (IF Head(s) \in Whitespace THEN 1 ELSE 0)
         + CountWordsBySeparator(Tail(s), inword)

\* len(s.split()): the number of maximal runs of non-whitespace characters
RECURSIVE CountWords(_, _)
CountWords(s, inword) ==
  IF s = <<>> THEN 0
  ELSE IF Head(s) \in Whitespace THEN CountWords(Tail(s), FALSE)
  ELSE (IF inword THEN 0 ELSE 1) + CountWords(Tail(s), TRUE)

(***************************************************************************)
(* persona.py: PodcastMode, Host, Segment, ScriptMetadata, Script          *)
(***************************************************************************)
SOLO == "solo"
SINGLE_LLM == "single-llm"
MULTI_AGENT == "multi-agent"
PodcastMode == {SOLO, SINGLE_LLM, MULTI_AGENT}

\* a raised exception, as a value
ValueError(msg) == [exc |-> "ValueError", msg |-> msg]
ProviderError == [exc |-> "ProviderError", msg |-> "chat failed"]
IsError(x) == "exc" \in DOMAIN x

\* Python's None
None == [none |-> TRUE]

Host(name, persona, voice_id) ==
  [name |-> name, persona |-> persona, voice_id |-> voice_id]

\* Host.__post_init__ accepts the host
HostValid(h) == Strip(h.name) # <<>> /\ Strip(h.voice_id) # <<>>

Segment(speaker, text) == [speaker |-> speaker, text |-> text]

\* Segment.__post_init__ accepts the segment
SegmentValid(seg) == Strip(seg.speaker) # <<>> /\ Strip(seg.text) # <<>>

\* Segment.word_count
word_count(seg) == CountWords(seg.text, FALSE)

words_per_minute == 150

\* Script.total_words
RECURSIVE total_words(_)
total_words(segments) ==
  IF segments = <<>> THEN 0
  ELSE word_count(Head(segments)) + total_words(Tail(segments))

\* Script.estimated_duration_seconds = sum of word_count / 150 * 60: the
\* exact value, as the numerator of a fraction over words_per_minute
DurationNum(segments) == total_words(segments) * 60

\* The code computes the sum in binary floating point, so the value it
\* compares is the exact one plus a rounding error far smaller than the
\* distance between two exact values: a comparison can only differ from the
\* exact one when the exact values are equal.  Signs is the sign of that
\* error; a rounding gives, for each prefix length k of a segment list, the
\* sign of the error of the sum of the first k durations (sum) and of the
\* comparison against the tolerance (band).
Signs == {-1, 0, 1}

\* estimated duration <= t seconds, as the floats compare
DurationLE(segments, t, rounding) ==
  \/ DurationNum(segments) < t * words_per_minute
  \/ /\ DurationNum(segments) = t * words_per_minute
     /\ rounding.sum[Len(segments)] <= 0

\* estimated duration > t seconds, as the floats compare
DurationGT(segments, t, rounding) == ~DurationLE(segments, t, rounding)

\* ScriptMetadata.__post_init__ as a bug would write it: lines 69-70 missing
MetadataErrorDurationUnchecked(title, duration_sec) ==
  IF Strip(title) = <<>> THEN ValueError("Title cannot be empty") ELSE None

\* ScriptMetadata.__post_init__: the error it raises, or None
MetadataError(title, duration_sec) ==
  IF Strip(title) = <<>> THEN ValueError("Title cannot be empty")
  ELSE IF duration_sec <= 0 THEN ValueError("Duration must be positive")
  ELSE None

\* a datetime, down to its seconds and microseconds (the date, the hour and
\* the minute are formatted and parsed the same way as the seconds)
Datetime(second, microsecond) ==
  [second |-> second, microsecond |-> microsecond]

\* datetime.now(), the default of ScriptMetadata.created: one clock reading
Now == Datetime(7, 120000)

\* ScriptMetadata(title=..., duration_sec=..., created=..., mode=..., ...)
ScriptMetadataAt(title, duration_sec, mode, source_document, created) ==
  [title |-> title, duration_sec |-> duration_sec, created |-> created,
   mode |-> mode, source_document |-> source_document]

\* ScriptMetadata(...) without created: the default factory fills it in
ScriptMetadata(title, duration_sec, mode, source_document) ==
  ScriptMetadataAt(title, duration_sec, mode, source_document, Now)

HostNames(hosts) == {hosts[i].name : i \in DOMAIN hosts}

\* the check of segment speakers against the hosts, as a bug would drop it
SpeakersKnownUnchecked(hosts, segments) == TRUE

\* Script.__post_init__, lines 87-91: every segment's speaker is a host name
SpeakersKnown(hosts, segments) ==
  \A i \in DOMAIN segments : segments[i].speaker \in HostNames(hosts)

\* Script.__post_init__ as a bug would write it: lines 84-85 missing
ScriptErrorSegmentsUnchecked(hosts, segments) ==
  IF hosts = <<>> THEN ValueError("Script must have at least one host")
  ELSE IF ~SpeakersKnown(hosts, segments)
    THEN ValueError("Speaker not found in hosts")
  ELSE None

\* Script.__post_init__: the error it raises, or None
ScriptError(hosts, segments) ==
  IF hosts = <<>> THEN ValueError("Script must have at least one host")
  ELSE IF segments = <<>>
    THEN ValueError("Script must have at least one segment")
  ELSE IF ~SpeakersKnown(hosts, segments)
    THEN ValueError("Speaker not found in hosts")
  ELSE None

\* Script(meta=..., hosts=..., segments=...): the script, or the error raised
Script(meta, hosts, segments) ==
  IF IsError(ScriptError(hosts, segments))
    THEN ScriptError(hosts, segments)
    ELSE [meta |-> meta, hosts |-> hosts, segments |-> segments]

IsScript(x) == "segments" \in DOMAIN x

\* PERSONA_TEMPLATES, the names shortened to one character:
\* A = Alex, D = Dr. Ada, B = Ben, C = Chloe; the voice en-US-Standard-A is
\* shortened to e-U-A, and so on: three parts between dashes at least
StandardVoice(letter) == <<"e", "-", "U", "-", letter>>

Alex == Host(<<"A">>, "narrator", StandardVoice("A"))
DrAda == Host(<<"D">>, "expert", StandardVoice("A"))
Ben == Host(<<"B">>, "co-host", StandardVoice("B"))
Chloe == Host(<<"C">>, "fact-checker", StandardVoice("C"))

PERSONA_TEMPLATES(mode) ==
  CASE mode = SOLO -> <<Alex>>
    [] mode = SINGLE_LLM -> <<DrAda, Ben>>
    [] mode = MULTI_AGENT -> <<DrAda, Ben, Chloe>>

\* the hosts a caller may pass as custom_hosts: Eve is not in the registry,
\* and her voice handle has no dash in it
Eve == Host(<<"E">>, "guest", <<"v", "E">>)

(***************************************************************************)
(* planner.py: the parsers                                                 *)
(***************************************************************************)
\* current_speaker = None
NoSpeaker == <<>>

\* the paragraphs of _parse_solo_response, line 179, as a bug would keep
\* the empty ones
ParagraphsKeepEmpty(response) ==
  LET pieces == Split(response, <<NL, NL>>)
  IN  [i \in DOMAIN pieces |-> Strip(pieces[i])]

\* _parse_solo_response, line 179:
\* [p.strip() for p in response.split('\n\n') if p.strip()]
Paragraphs(response) ==
  LET pieces == Split(response, <<NL, NL>>)
  IN  SelectSeq([i \in DOMAIN pieces |-> Strip(pieces[i])],
                LAMBDA p : p # <<>>)

\* _parse_solo_response
_parse_solo_response(response, speaker_name) ==
  LET paragraphs == Paragraphs(response)
  IN  [i \in DOMAIN paragraphs |-> Segment(speaker_name, paragraphs[i])]

\* line 205 as a bug would write it: line.startswith(name)
IsLabelNoColon(line, name) == StartsWith(line, name)

\* line 205: line.startswith(f"{name}:")
IsLabel(line, name) == StartsWith(line, name \o <<":">>)

\* lines 203-208: the first name, in the iteration order of the set
\* host_names, that labels the line; NoSpeaker when none does
RECURSIVE SpeakerFound(_, _)
SpeakerFound(line, names) ==
  IF names = <<>> THEN NoSpeaker
  ELSE IF IsLabel(line, Head(names)) THEN Head(names)
  ELSE SpeakerFound(line, Tail(names))

\* line 207: text = line[len(name)+1:].strip()
LabelText(line, name) == Strip(SubSeq(line, Len(name) + 2, Len(line)))

\* line 220 as a bug would write it: current_text = [text]
StartTextKeepEmpty(text) == <<text>>

\* line 220: current_text = [text] if text else []
StartText(text) == IF text # <<>> THEN <<text>> ELSE <<>>

\* lines 212-216 and 227-231: save the open segment, if it has any text
SaveOpenSegment(segments, current_speaker, current_text) ==
  IF current_speaker # NoSpeaker /\ current_text # <<>>
    THEN Append(segments,
                Segment(current_speaker, Join(current_text, <<" ">>)))
    ELSE segments

\* lines 222-224 as a bug would write them: the line is dropped
ContinueTextDropped(current_speaker, current_text, line) == current_text

\* lines 222-224: a line that opens nothing continues the open segment
ContinueText(current_speaker, current_text, line) ==
  IF current_speaker # NoSpeaker THEN Append(current_text, line)
  ELSE current_text

\* the loop of lines 197-224 and the final save of lines 227-231
RECURSIVE ParseLines(_, _, _, _, _)
ParseLines(lines, names, segments, current_speaker, current_text) ==
  IF lines = <<>>
    THEN SaveOpenSegment(segments, current_speaker, current_text)
  ELSE
    LET line == Strip(Head(lines))
        speaker_found == SpeakerFound(line, names)
    IN  IF line = <<>>
          THEN ParseLines(Tail(lines), names, segments, current_speaker,
                          current_text)
        ELSE IF speaker_found # NoSpeaker
          THEN ParseLines(Tail(lines), names,
                 SaveOpenSegment(segments, current_speaker, current_text),
                 speaker_found,
                 StartText(LabelText(line, speaker_found)))
        ELSE ParseLines(Tail(lines), names, segments, current_speaker,
                        ContinueText(current_speaker, current_text, line))

\* the orders in which `for name in host_names` may visit the set of names
IterationOrders(hosts) ==
  LET S == HostNames(hosts)
  IN  {f \in [1..Cardinality(S) -> S] :
         \A i, j \in DOMAIN f : i # j => f[i] # f[j]}

\* _parse_multi_speaker_response, the set host_names visited in order `names`
_parse_multi_speaker_response(response, names) ==
  ParseLines(Split(response, <<NL>>), names, <<>>, NoSpeaker, <<>>)

(***************************************************************************)
(* planner.py: the timing-fit step                                         *)
(***************************************************************************)
Abs(x) == IF x < 0 THEN -x ELSE x

\* line 238: target_tolerance = target_duration * 0.05, in percent
TolerancePercent == 5

\* |exact duration - target| and the tolerance, both multiplied by
\* 100 * words_per_minute
DriftNum(segments, target_duration) ==
  Abs(DurationNum(segments) * 100 - target_duration * words_per_minute * 100)

ToleranceNum(target_duration) ==
  target_duration * TolerancePercent * words_per_minute

\* line 240: abs(current_duration - target_duration) <= target_tolerance
WithinTolerance(segments, target_duration, rounding) ==
  \/ DriftNum(segments, target_duration) < ToleranceNum(target_duration)
  \/ /\ DriftNum(segments, target_duration) = ToleranceNum(target_duration)
     /\ rounding.band[Len(segments)] <= 0

\* the roundings a segment list can meet: the sign is free exactly where
\* the exact values are equal, and 0 (it decides nothing) elsewhere
Roundings(segments, target_duration) ==
  LET n == Len(segments)
      sumTies == {k \in 1..n :
                    DurationNum(SubSeq(segments, 1, k))
                      = target_duration * words_per_minute}
      bandTies == {k \in 1..n :
                     DriftNum(SubSeq(segments, 1, k), target_duration)
                       = ToleranceNum(target_duration)}
      sums == {f \in [1..n -> Signs] : \A k \in (1..n) \ sumTies : f[k] = 0}
      bands == {g \in [1..n -> Signs] : \A k \in (1..n) \ bandTies : g[k] = 0}
  IN  {[sum |-> f, band |-> g] : f \in sums, g \in bands}

\* the loop of _trim_script as a bug would write it: segments.pop(0), the
\* first segment removed instead of the last
RECURSIVE TrimSegmentsFromFront(_, _, _)
TrimSegmentsFromFront(segments, target_duration, rounding) ==
  IF segments = <<>> THEN segments
  ELSE IF DurationNum(segments) <= target_duration * words_per_minute
    THEN segments
  ELSE TrimSegmentsFromFront(Tail(segments), target_duration, rounding)

\* the loop of _trim_script, lines 253-258: pop the last segment until the
\* rest fits the target or nothing is left
RECURSIVE TrimSegments(_, _, _)
TrimSegments(segments, target_duration, rounding) ==
  IF segments = <<>> THEN segments
  ELSE IF DurationLE(segments, target_duration, rounding) THEN segments
  ELSE TrimSegments(SubSeq(segments, 1, Len(segments) - 1),
                    target_duration, rounding)

\* _trim_script as a bug would write it: an empty result is returned
TrimScriptUnchecked(script, target_duration, rounding) ==
  [meta |-> script.meta, hosts |-> script.hosts,
   segments |-> TrimSegments(script.segments, target_duration, rounding)]

\* _trim_script: the trimmed script, or the error its construction raises
_trim_script(script, target_duration, rounding) ==
  Script(script.meta, script.hosts,
         TrimSegments(script.segments, target_duration, rounding))

\* _adjust_timing as a bug would write it: one segment is popped, the loop
\* of _trim_script forgotten
AdjustTimingPopOnce(script, target_duration, rounding) ==
  IF WithinTolerance(script.segments, target_duration, rounding) THEN script
  ELSE IF DurationGT(script.segments, target_duration, rounding)
    THEN Script(script.meta, script.hosts,
                SubSeq(script.segments, 1, Len(script.segments) - 1))
  ELSE script

\* _adjust_timing as a bug would write it: a script that is too long is
\* returned as one that is too short is
AdjustTimingNeverTrims(script, target_duration, rounding) == script

\* _adjust_timing: the fitted script, or the error raised
_adjust_timing(script, target_duration, rounding) ==
  IF WithinTolerance(script.segments, target_duration, rounding) THEN script
  ELSE IF DurationGT(script.segments, target_duration, rounding)
    THEN _trim_script(script, target_duration, rounding)
  ELSE script

(***************************************************************************)
(* formatter.py: to_dict and from_dict                                     *)
(***************************************************************************)
Digits == <<"0", "1", "2", "3", "4", "5", "6", "7", "8", "9">>

IsDigit(c) == \E d \in DOMAIN Digits : Digits[d] = c

DigitValue(c) == (CHOOSE d \in DOMAIN Digits : Digits[d] = c) - 1

\* the decimal digits of n, padded with zeros on the left to the width
RECURSIVE ZeroPadded(_, _)
ZeroPadded(n, width) ==
  IF width = 0 THEN <<>>
  ELSE Append(ZeroPadded(n \div 10, width - 1), Digits[(n % 10) + 1])

\* int(digits)
RECURSIVE DigitsValue(_)
DigitsValue(ds) ==
  IF ds = <<>> THEN 0
  ELSE DigitsValue(SubSeq(ds, 1, Len(ds) - 1)) * 10 + DigitValue(ds[Len(ds)])

\* digits followed by zeros up to the width
RECURSIVE PadRight(_, _)
PadRight(ds, width) ==
  IF Len(ds) >= width THEN ds ELSE PadRight(Append(ds, "0"), width)

\* isoformat as a bug would write it: whole seconds only
isoformatWholeSeconds(dt) == ZeroPadded(dt.second, 2)

\* datetime.isoformat(): the fraction is written only when it is not zero
isoformat(dt) ==
  ZeroPadded(dt.second, 2)
    \o (IF dt.microsecond = 0 THEN <<>>
        ELSE <<".">> \o ZeroPadded(dt.microsecond, 6))

\* datetime.fromisoformat(): two digits of seconds and, after a point, one
\* to six digits of fraction; anything else raises
fromisoformat(s) ==
  LET whole == SubSeq(s, 1, 2)
      frac == SubSeq(s, 4, Len(s))
      digits(x) == \A i \in DOMAIN x : IsDigit(x[i])
  IN  IF Len(s) = 2 /\ digits(s) /\ DigitsValue(s) < 60
        THEN Datetime(DigitsValue(s), 0)
      ELSE IF /\ Len(s) \in 4..9
              /\ s[3] = "."
              /\ digits(whole) /\ DigitsValue(whole) < 60
              /\ digits(frac)
        THEN Datetime(DigitsValue(whole), DigitsValue(PadRight(frac, 6)))
      ELSE ValueError("Invalid isoformat string")

\* PodcastMode(value): a member is represented by its value, so the lookup
\* returns the value itself when it is one, and raises otherwise
PodcastModeOf(value) ==
  IF value \in PodcastMode THEN value
  ELSE ValueError("not a valid PodcastMode")

\* to_dict, lines 20-43, on the three fields of a script
DocumentOf(meta, hosts, segments) ==
  [meta |-> [title |-> meta.title,
             duration_sec |-> meta.duration_sec,
             created |-> isoformat(meta.created),
             mode |-> meta.mode,
             source_document |-> meta.source_document],
   hosts |-> [i \in DOMAIN hosts |->
                [name |-> hosts[i].name, persona |-> hosts[i].persona,
                 voice_id |-> hosts[i].voice_id]],
   segments |-> [i \in DOMAIN segments |->
                   [speaker |-> segments[i].speaker,
                    text |-> segments[i].text]]]

to_dict(script) == DocumentOf(script.meta, script.hosts, script.segments)

\* Host(...) in from_dict: the error the first bad host raises, or None
HostsError(hs) ==
  IF \E i \in DOMAIN hs : ~HostValid(hs[i])
    THEN LET i == CHOOSE k \in DOMAIN hs :
                    ~HostValid(hs[k]) /\ \A j \in 1..(k - 1) : HostValid(hs[j])
         IN  IF Strip(hs[i].name) = <<>>
               THEN ValueError("Host name cannot be empty")
               ELSE ValueError("Voice ID cannot be empty")
  ELSE None

\* Segment(...) in from_dict: the error the first bad segment raises, or None
LoadedSegmentsError(segs) ==
  IF \E i \in DOMAIN segs : ~SegmentValid(segs[i])
    THEN LET i == CHOOSE k \in DOMAIN segs :
                    /\ ~SegmentValid(segs[k])
                    /\ \A j \in 1..(k - 1) : SegmentValid(segs[j])
         IN  IF Strip(segs[i].speaker) = <<>>
               THEN ValueError("Speaker cannot be empty")
               ELSE ValueError("Segment text cannot be empty")
  ELSE None

\* from_dict, lines 70-98: the script, or the first error raised
from_dict(data) ==
  LET m == data.meta
      created == fromisoformat(m.created)
      mode_of == PodcastModeOf(m.mode)
      \* meta_data.get('source_document')
      source == IF "source_document" \in DOMAIN m THEN m.source_document
                ELSE "None"
  IN  IF IsError(created) THEN created
      ELSE IF m.mode \notin PodcastMode THEN mode_of
      ELSE IF IsError(MetadataError(m.title, m.duration_sec))
        THEN MetadataError(m.title, m.duration_sec)
      ELSE IF IsError(HostsError(data.hosts)) THEN HostsError(data.hosts)
      ELSE IF IsError(LoadedSegmentsError(data.segments))
        THEN LoadedSegmentsError(data.segments)
      ELSE Script(ScriptMetadataAt(m.title, m.duration_sec, mode_of, source,
                                   created),
                  data.hosts, data.segments)

(***************************************************************************)
(* speech/google.py: GoogleTTSEngine and MockTTSEngine                     *)
(***************************************************************************)
\* Script.get_host_by_name: the first host of that name, or None
get_host_by_name(script, name) ==
  IF \E i \in DOMAIN script.hosts : script.hosts[i].name = name
    THEN script.hosts[CHOOSE i \in DOMAIN script.hosts :
                        /\ script.hosts[i].name = name
                        /\ \A j \in 1..(i - 1) : script.hosts[j].name # name]
    ELSE None

\* _synthesize_segment, lines 90-105: the request sent to the provider
SynthesisRequest(text, voice_id) ==
  LET parts == Split(voice_id, <<"-">>)
  IN  IF Len(parts) >= 3
        THEN [text |-> text,
              language_code |-> parts[1] \o <<"-">> \o parts[2],
              name |-> voice_id]
        ELSE [text |-> text,
              language_code |-> <<"e", "-", "U">>,
              name |-> StandardVoice("A")]

\* AudioSegment.from_file(...) of the provider's answer to a request
Chunk(request) == [kind |-> "chunk", text |-> request.text, voice |-> request.name]

\* AudioSegment.silent(duration=500)
PauseMs == 500
Pause == [kind |-> "pause", ms |-> PauseMs]

\* the requests of the loop of synthesize, lines 48-57, for the first n
\* segments
SynthesisRequests(script, n) ==
  [i \in 1..n |->
     SynthesisRequest(script.segments[i].text,
                      get_host_by_name(script, script.segments[i].speaker).voice_id)]

\* a loop that adds the pause after every segment but the last, whoever
\* speaks next
RECURSIVE AudioSegmentsPauseAlways(_, _)
AudioSegmentsPauseAlways(script, i) ==
  IF i > Len(script.segments) THEN <<>>
  ELSE <<Chunk(SynthesisRequests(script, i)[i])>>
         \o (IF i < Len(script.segments) THEN <<Pause>> ELSE <<>>)
         \o AudioSegmentsPauseAlways(script, i + 1)

\* audio_segments after the loop of synthesize, lines 46-69: a chunk per
\* segment, and a pause after it when the next segment has another speaker
RECURSIVE AudioSegments(_, _)
AudioSegments(script, i) ==
  IF i > Len(script.segments) THEN <<>>
  ELSE <<Chunk(SynthesisRequests(script, i)[i])>>
         \o (IF /\ i < Len(script.segments)
                 /\ script.segments[i + 1].speaker # script.segments[i].speaker
               THEN <<Pause>> ELSE <<>>)
         \o AudioSegments(script, i + 1)

\* MockTTSEngine.synthesize, lines 156-157: silence of
\* int(estimated_duration_seconds * 1000) ms; the float product of a duration
\* of w * 0.4 s is w * 400 or just below it, and int() cuts the fraction off
MockDurations(script) ==
  LET exact == (DurationNum(script.segments) * 1000) \div words_per_minute
  IN  {exact - 1, exact}

MockAudio(ms) == << [kind |-> "silence", ms |-> ms] >>

(***************************************************************************)
(* State                                                                   *)
(***************************************************************************)
VARIABLES
  pc,               \* where the scenario stands
  mode,             \* generate_script(mode=...)
  target_duration,  \* generate_script(target_duration=...)
  title_arg,        \* generate_script(title=...); <<>> is None
  custom_hosts,     \* generate_script(custom_hosts=...); <<>> is None
  api_key,          \* which credential settings holds
  hosts,            \* the hosts in effect
  metadata,         \* the ScriptMetadata built on line 42
  chat_calls,       \* the calls made to llm_client.chat, in order
  title_response,   \* the content of the title response
  response,         \* the content of the body response
  segments,         \* what the parser returned
  rounding,         \* the float rounding met by the timing-fit step
  script,           \* the Script built on line 59, before the timing fit
  result,           \* what the call returned or raised
  refit,            \* the timing-fit step applied to its own result
  document,         \* what ScriptFormatter.to_dict returned
  loaded,           \* what ScriptFormatter.from_dict returned or raised
  caller,           \* who runs the pipeline: the API, the CLI or a library call
  llm_client,       \* the class of the client handed to ScriptPlanner
  speech_engine,    \* what get_speech_engine returns: "google" or "mock"
  job_status,       \* the job table of api/routers/podcast.py
  script_file,      \* the document in script.podcast.yaml, or None
  tts_requests,     \* the requests sent to the speech provider, in order
  final_audio,      \* the audio exported by synthesize, if any
  tasks             \* several jobs at once: where the task of each job is

\* the state of the formatter, of the speech engine and of the callers
ioVars == <<document, loaded, caller, llm_client, speech_engine, job_status,
            script_file, tts_requests, final_audio, tasks>>

vars == <<pc, mode, target_duration, title_arg, custom_hosts, api_key, hosts,
          metadata, chat_calls, title_response, response, segments, rounding,
          script, result, refit, ioVars>>

\* the rounding of a state where no duration has been compared
NoRounding == [sum |-> <<>>, band |-> <<>>]

NoDocument == "None"

\* the job table without a job
NoJobs == <<>>

\* no task of a second job is running
NoTasks == <<>>

\* no audio file has been exported
NoAudio == <<>>

\* nothing has been formatted, nothing synthesized, and no job exists: the
\* planner or the formatter is called directly
InitIo ==
  /\ document = None
  /\ loaded = None
  /\ caller = "library"
  /\ llm_client = "injected"
  /\ speech_engine = "mock"
  /\ job_status = NoJobs
  /\ tasks = NoTasks
  /\ script_file = None
  /\ tts_requests = <<>>
  /\ final_audio = NoAudio

(***************************************************************************)
(* The inputs                                                              *)
(***************************************************************************)
\* sequences over S of length lo..hi
SeqsOf(S, lo, hi) == UNION {[1..n -> S] : n \in lo..hi}

\* the lines the body responses handed to the parsers are made of
BodyLines ==
  { <<"D", ":", "x">>,                 \* a label of the registry, with text
    <<"B", ":", " ", "x", " ", "x">>,  \* a label, a space, two words
    <<"B", ":">>,                      \* a label and no text
    <<" ", "D", ":", " ", "x", " ">>,  \* white space around label and text
    <<"d", ":", "x">>,                 \* a label in the wrong case
    <<"E", ":", "x">>,                 \* a label of a custom host
    <<"A", ":", "x">>,                 \* the label of the solo host
    <<"B", "e", ":", "x">>,            \* a longer name that begins like Ben
    <<"x">>,                           \* a line without a label
    <<" ">>,                           \* a line of white space
    <<>> }                             \* an empty line

\* the body responses handed to the parsers: 1..MaxLines lines joined by
\* newlines
BodyResponses ==
  {Join(ls, <<NL>>) : ls \in SeqsOf(BodyLines, 1, MaxLines)}

\* the lines of the body responses of a whole generate_script call
PlannerLines ==
  { <<"D", ":", "x">>,
    <<"B", ":", " ", "x", " ", "x">>,
    <<"d", ":", "x">>,
    <<"E", ":", "x">>,
    <<"x">>,
    <<>> }

PlannerResponses ==
  {Join(ls, <<NL>>) : ls \in SeqsOf(PlannerLines, 1, MaxLines)}

\* the title responses: quoted, with white space around; nothing but quotes;
\* double quotes inside single quotes
TitleResponses ==
  { <<" ", "\"", "T", "\"", NL>>,
    <<"'", "'">>,
    <<"'", "\"", "T", "\"", "'">> }

CustomHostLists == { <<>>, <<Eve, Ben>> }

ApiKeys == {"openrouter", "openai", "none"}

(***************************************************************************)
(* planner.py: generate_script                                             *)
(***************************************************************************)
\* a planner that falls back on a model of its own when no key is configured
_get_default_modelFallback ==
  CASE api_key = "openrouter" -> [model |-> "openai/gpt-4o-mini"]
    [] OTHER -> [model |-> "gpt-4o-mini"]

\* _get_default_model: the model, or the error raised
_get_default_model ==
  CASE api_key = "openrouter" -> [model |-> "openai/gpt-4o-mini"]
    [] api_key = "openai" -> [model |-> "gpt-4o-mini"]
    [] OTHER -> ValueError("No LLM API key configured")

\* OpenRouterClient.chat, openrouter.py lines 70-82: the provider having
\* answered, LLMUsage is built with a keyword it does not have and chat raises
\* TypeError; the other clients can return
ChatCanReturn == llm_client # "OpenRouterClient"

\* lines 98 and 133: target_words = int(target_duration * 150 / 60); the
\* product is a whole number and the quotient a whole number or a half, both
\* exact as floats, and int() cuts the half off
TargetWords(duration) == (duration * 150) \div 60

\* a call of llm_client.chat that has not returned yet; the body request
\* carries the target word count in its prompt (lines 110 and 147)
ChatCall(kind) ==
  [kind |-> kind, model |-> _get_default_model.model, outcome |-> "pending",
   target_words |-> IF kind = "body" THEN TargetWords(target_duration)
                    ELSE 0]

\* the log, the last call having returned or raised
Settle(calls, outcome) ==
  [calls EXCEPT ![Len(calls)].outcome = outcome]

\* line 35 as a bug would write it: the registry, whatever the caller passed
ResolveHostsRegistryOnly(custom, m) == PERSONA_TEMPLATES(m)

\* line 35: hosts = custom_hosts or PERSONA_TEMPLATES[mode].copy()
ResolveHosts(custom, m) ==
  IF custom # <<>> THEN custom ELSE PERSONA_TEMPLATES(m)

\* line 93: response.content.strip().strip('"').strip("'")
CleanTitle(content) == StripChars(StripChars(Strip(content), {"\""}), {"'"})

\* lines 41-55 up to the await of the body call: the metadata is built, the
\* model chosen and the body request sent, or the first error raised
BuildMetadataAndAskBody(title, calls) ==
  IF IsError(MetadataError(title, target_duration))
    THEN /\ metadata' = None
         /\ chat_calls' = calls
         /\ result' = MetadataError(title, target_duration)
         /\ pc' = "raised"
  ELSE IF IsError(_get_default_model)
    THEN /\ metadata' = ScriptMetadata(title, target_duration, mode, NoDocument)
         /\ chat_calls' = calls
         /\ result' = _get_default_model
         /\ pc' = "raised"
  ELSE /\ metadata' = ScriptMetadata(title, target_duration, mode, NoDocument)
       /\ chat_calls' = Append(calls, ChatCall("body"))
       /\ result' = None
       /\ pc' = "await_body"

\* generate_script called with a title: lines 32-55, to the first await
CallWithTitle ==
  /\ pc = "start"
  /\ title_arg # <<>>
  /\ hosts' = ResolveHosts(custom_hosts, mode)
  /\ BuildMetadataAndAskBody(title_arg, chat_calls)
  /\ UNCHANGED ioVars
  /\ UNCHANGED <<mode, target_duration, title_arg, custom_hosts, api_key,
                 title_response, response, segments, rounding, script, refit>>

\* generate_script called without a title: lines 32-39 and _generate_title
\* to its await
CallWithoutTitle ==
  /\ pc = "start"
  /\ title_arg = <<>>
  /\ hosts' = ResolveHosts(custom_hosts, mode)
  /\ IF IsError(_get_default_model)
       THEN /\ result' = _get_default_model
            /\ pc' = "raised"
            /\ UNCHANGED chat_calls
       ELSE /\ chat_calls' = Append(chat_calls, ChatCall("title"))
            /\ pc' = "await_title"
            /\ UNCHANGED result
  /\ UNCHANGED ioVars
  /\ UNCHANGED <<mode, target_duration, title_arg, custom_hosts, api_key,
                 metadata, title_response, response, segments, rounding,
                 script, refit>>

\* the title call returns: line 93, then lines 41-55 to the next await
TitleReturns ==
  /\ pc = "await_title"
  /\ ChatCanReturn
  /\ \E content \in TitleResponses :
       /\ title_response' = content
       /\ BuildMetadataAndAskBody(CleanTitle(content),
                                  Settle(chat_calls, "returned"))
  /\ UNCHANGED ioVars
  /\ UNCHANGED <<mode, target_duration, title_arg, custom_hosts, api_key,
                 hosts, response, segments, rounding, script, refit>>

\* a planner that goes on with a title of its own when the title call raises
TitleFailsThenAsksBody ==
  /\ pc = "await_title"
  /\ BuildMetadataAndAskBody(<<"T">>, Settle(chat_calls, "raised"))
  /\ UNCHANGED ioVars
  /\ UNCHANGED <<mode, target_duration, title_arg, custom_hosts, api_key,
                 hosts, title_response, response, segments, rounding, script,
                 refit>>

\* the title call raises: generate_script raises with it
TitleFails ==
  /\ pc = "await_title"
  /\ chat_calls' = Settle(chat_calls, "raised")
  /\ result' = ProviderError
  /\ pc' = "raised"
  /\ UNCHANGED ioVars
  /\ UNCHANGED <<mode, target_duration, title_arg, custom_hosts, api_key,
                 hosts, metadata, title_response, response, segments,
                 rounding, script, refit>>

\* lines 128 and 167: the parser of the mode
ParseBody(content, names) ==
  IF mode = SOLO THEN _parse_solo_response(content, hosts[1].name)
  ELSE _parse_multi_speaker_response(content, names)

\* Segment(...) in the parsers: the error the first bad segment raises
SegmentsError(segs) ==
  IF \E i \in DOMAIN segs : Strip(segs[i].speaker) = <<>>
    THEN ValueError("Speaker cannot be empty")
  ELSE IF \E i \in DOMAIN segs : Strip(segs[i].text) = <<>>
    THEN ValueError("Segment text cannot be empty")
  ELSE None

\* the body call returns: the parser, then lines 59-65
BodyReturns ==
  /\ pc = "await_body"
  /\ ChatCanReturn
  /\ \E content \in PlannerResponses, names \in IterationOrders(hosts) :
       LET segs == ParseBody(content, names)
           built == Script(metadata, hosts, segs)
       IN  /\ response' = content
           /\ chat_calls' = Settle(chat_calls, "returned")
           /\ segments' = segs
           /\ IF IsError(SegmentsError(segs))
                THEN /\ script' = None
                     /\ rounding' = NoRounding
                     /\ result' = SegmentsError(segs)
                     /\ pc' = "raised"
              ELSE IF IsError(built)
                THEN /\ script' = None
                     /\ rounding' = NoRounding
                     /\ result' = built
                     /\ pc' = "raised"
              ELSE \E r \in Roundings(segs, target_duration) :
                     LET fitted == _adjust_timing(built, target_duration, r)
                     IN  /\ script' = built
                         /\ rounding' = r
                         /\ result' = fitted
                         /\ pc' = IF IsError(fitted) THEN "raised"
                                  ELSE "returned"
  /\ UNCHANGED ioVars
  /\ UNCHANGED <<mode, target_duration, title_arg, custom_hosts, api_key,
                 hosts, metadata, title_response, refit>>

\* the body call raises: generate_script raises with it
BodyFails ==
  /\ pc = "await_body"
  /\ chat_calls' = Settle(chat_calls, "raised")
  /\ result' = ProviderError
  /\ pc' = "raised"
  /\ UNCHANGED ioVars
  /\ UNCHANGED <<mode, target_duration, title_arg, custom_hosts, api_key,
                 hosts, metadata, title_response, response, segments,
                 rounding, script, refit>>

\* a call of generate_script about to start
Init ==
  /\ pc = "start"
  /\ mode \in PodcastMode
  /\ target_duration \in 0..MaxTarget
  /\ title_arg \in { <<>>, <<"T">> }
  /\ custom_hosts \in CustomHostLists
  /\ api_key \in ApiKeys
  /\ hosts = <<>>
  /\ metadata = None
  /\ chat_calls = <<>>
  /\ title_response = <<>>
  /\ response = <<>>
  /\ segments = <<>>
  /\ rounding = NoRounding
  /\ script = None
  /\ result = None
  /\ refit = None
  /\ InitIo

Next ==
  \/ CallWithTitle
  \/ CallWithoutTitle
  \/ TitleReturns
  \/ TitleFails
  \/ BodyReturns
  \/ BodyFails

Spec == Init /\ [][Next]_vars

(***************************************************************************)
(* The parsers on their own: a body response has arrived                   *)
(***************************************************************************)
ParseFrame ==
  /\ UNCHANGED <<mode, target_duration, title_arg, custom_hosts, api_key, hosts,
              metadata, chat_calls, title_response, response, rounding,
              script, refit>>
  /\ UNCHANGED ioVars

\* _generate_solo_script, line 128
ParseSolo ==
  /\ pc = "parse"
  /\ mode = SOLO
  /\ segments' = ParseBody(response, <<>>)
  /\ result' = SegmentsError(segments')
  /\ pc' = "parsed"
  /\ ParseFrame

\* _generate_single_llm_script, line 167
ParseMultiSpeaker ==
  /\ pc = "parse"
  /\ mode # SOLO
  /\ \E names \in IterationOrders(hosts) :
       segments' = ParseBody(response, names)
  /\ result' = SegmentsError(segments')
  /\ pc' = "parsed"
  /\ ParseFrame

InitParse ==
  /\ pc = "parse"
  /\ mode \in PodcastMode
  /\ custom_hosts \in CustomHostLists
  /\ hosts = ResolveHosts(custom_hosts, mode)
  /\ response \in BodyResponses
  /\ target_duration = 1
  /\ title_arg = <<"T">>
  /\ api_key = "openrouter"
  /\ metadata = ScriptMetadata(title_arg, target_duration, mode, NoDocument)
  /\ chat_calls = Settle(<<ChatCall("body")>>, "returned")
  /\ title_response = <<>>
  /\ segments = <<>>
  /\ rounding = NoRounding
  /\ script = None
  /\ result = None
  /\ refit = None
  /\ InitIo

NextParse == ParseSolo \/ ParseMultiSpeaker

SpecParse == InitParse /\ [][NextParse]_vars

\* the multi-speaker parser with custom hosts whose names begin alike:
\* Be = Ben Carter begins with B = Ben; the name B:x begins with the label
\* of Ben
BenCarter == Host(<<"B", "e">>, "guest", StandardVoice("B"))
BenColon == Host(<<"B", ":", "x">>, "guest", StandardVoice("C"))

OrderHostLists ==
  { <<Ben, BenCarter>>, <<DrAda, Ben, BenCarter>>, <<Ben, BenColon>> }

OrderLines ==
  { <<"B", ":", "x">>,                 \* the label of Ben
    <<"B", "e", ":", "x">>,            \* the label of Ben Carter
    <<"B", ":", "x", ":", "y">>,       \* the label of Ben and that of B:x
    <<"B", "e">>,                      \* a name without its colon
    <<"D", ":", "x">>,
    <<"x">>,
    <<>> }

OrderResponses ==
  {Join(ls, <<NL>>) : ls \in SeqsOf(OrderLines, 1, MaxLines)}

InitOrder ==
  /\ pc = "parse"
  /\ mode \in PodcastMode
  /\ custom_hosts \in OrderHostLists
  /\ hosts = ResolveHosts(custom_hosts, mode)
  /\ response \in OrderResponses
  /\ target_duration = 1
  /\ title_arg = <<"T">>
  /\ api_key = "openrouter"
  /\ metadata = ScriptMetadata(title_arg, target_duration, mode, NoDocument)
  /\ chat_calls = Settle(<<ChatCall("body")>>, "returned")
  /\ title_response = <<>>
  /\ segments = <<>>
  /\ rounding = NoRounding
  /\ script = None
  /\ result = None
  /\ refit = None
  /\ InitIo

SpecOrder == InitOrder /\ [][NextParse]_vars

(***************************************************************************)
(* The data model and the timing-fit step on their own: a Script is built  *)
(* from any hosts and segments, fitted, and fitted again                   *)
(***************************************************************************)
\* a text of n words
RECURSIVE WordsText(_)
WordsText(n) == IF n <= 1 THEN <<"x">> ELSE <<"x", " ">> \o WordsText(n - 1)

\* 21 words last 8.4 s: exactly 5% over a target of 8 s
ScriptTexts == {WordsText(n) : n \in {1, 2, 9, 21}}

ScriptSegments ==
  {Segment(name, text) : name \in {Alex.name, Ben.name}, text \in ScriptTexts}

\* a caller's host that takes the name of Alex and another voice
AlexTwin == Host(<<"A">>, "guest", StandardVoice("B"))

ScriptHostLists == { <<>>, <<Alex>>, <<Alex, Ben>>, <<Alex, AlexTwin>> }

ScriptFrame ==
  /\ UNCHANGED <<mode, target_duration, title_arg, custom_hosts, api_key, hosts,
              metadata, chat_calls, title_response, response, segments>>
  /\ UNCHANGED ioVars

\* ScriptMetadata(...) and Script(meta=..., hosts=..., segments=...) from
\* the arguments the state holds: the script, or the first error raised
Construct ==
  /\ pc = "new"
  /\ script' = IF IsError(MetadataError(metadata.title, metadata.duration_sec))
                 THEN MetadataError(metadata.title, metadata.duration_sec)
                 ELSE Script(metadata, hosts, segments)
  /\ pc' = IF IsError(script') THEN "rejected" ELSE "constructed"
  /\ UNCHANGED <<rounding, result, refit>>
  /\ ScriptFrame

\* _adjust_timing(script, target_duration)
AdjustTiming ==
  /\ pc = "constructed"
  /\ \E r \in Roundings(script.segments, target_duration) :
       /\ rounding' = r
       /\ result' = _adjust_timing(script, target_duration, r)
  /\ pc' = IF IsError(result') THEN "fit_raised" ELSE "fitted"
  /\ UNCHANGED <<script, refit>>
  /\ ScriptFrame

\* _adjust_timing applied to the script it returned
AdjustTimingAgain ==
  /\ pc = "fitted"
  /\ refit' = _adjust_timing(result, target_duration, rounding)
  /\ pc' = "refitted"
  /\ UNCHANGED <<rounding, script, result>>
  /\ ScriptFrame

InitScript ==
  /\ pc = "new"
  /\ mode = SINGLE_LLM
  /\ target_duration \in 1..MaxFitTarget
  /\ hosts \in ScriptHostLists
  /\ segments \in SeqsOf(ScriptSegments, 0, MaxSegs)
  /\ title_arg = <<"T">>
  /\ custom_hosts = hosts
  /\ api_key = "openrouter"
  /\ metadata = ScriptMetadata(title_arg, target_duration, mode, NoDocument)
  /\ chat_calls = <<>>
  /\ title_response = <<>>
  /\ response = <<>>
  /\ rounding = NoRounding
  /\ script = None
  /\ result = None
  /\ refit = None
  /\ InitIo

NextScript == Construct \/ AdjustTiming \/ AdjustTimingAgain

SpecScript == InitScript /\ [][NextScript]_vars

\* the timing-fit step on scripts of one speaker whose prefixes can last
\* a whole number of seconds: 2 + 7 + 1 words are 4 s
TrimTexts == {WordsText(n) : n \in {1, 2, 7}}

InitTrim ==
  /\ pc = "new"
  /\ mode = SOLO
  /\ target_duration \in 1..MaxFitTarget
  /\ hosts = <<Alex>>
  /\ segments \in SeqsOf({Segment(Alex.name, text) : text \in TrimTexts},
                          1, MaxSegs + 1)
  /\ title_arg = <<"T">>
  /\ custom_hosts = <<>>
  /\ api_key = "openrouter"
  /\ metadata = ScriptMetadata(title_arg, target_duration, mode, NoDocument)
  /\ chat_calls = <<>>
  /\ title_response = <<>>
  /\ response = <<>>
  /\ rounding = NoRounding
  /\ script = None
  /\ result = None
  /\ refit = None
  /\ InitIo

SpecTrim == InitTrim /\ [][NextScript]_vars

(***************************************************************************)
(* The formatter: a Script is built, fitted, written with to_dict and read *)
(* back with from_dict; a document written by hand is read with from_dict  *)
(***************************************************************************)
FormatDatetimes == {Datetime(7, 0), Datetime(59, 5), Datetime(0, 120000)}

FormatSources == {NoDocument, "paper.pdf"}

FormatHostLists == { <<>>, <<Alex>>, <<DrAda, Ben>> }

FormatSegments ==
  { Segment(Alex.name, <<"x">>),
    Segment(Ben.name, <<"x", " ", NL, "x">>),
    Segment(DrAda.name, <<"x">>) }

\* the documents a file written by hand may hold for the given fields: the
\* one to_dict writes, one without the optional key, one with a mode that
\* does not exist, one with a timestamp that is no timestamp
ForeignDocuments(meta, hs, segs) ==
  LET doc == DocumentOf(meta, hs, segs)
  IN  { doc,
        [doc EXCEPT !.meta = [title |-> meta.title,
                              duration_sec |-> meta.duration_sec,
                              created |-> isoformat(meta.created),
                              mode |-> meta.mode]],
        [doc EXCEPT !.meta.mode = "duet"],
        [doc EXCEPT !.meta.created = <<"7">>] }

FormatFrame ==
  UNCHANGED <<mode, target_duration, title_arg, custom_hosts, api_key, hosts,
              metadata, chat_calls, title_response, response, segments,
              rounding, script, result, refit>>

CallerFrame ==
  UNCHANGED <<caller, llm_client, speech_engine, job_status, script_file,
              tts_requests, final_audio, tasks>>

\* to_dict(script)
ToDict ==
  /\ pc = "constructed"
  /\ document' = to_dict(script)
  /\ pc' = "serialized"
  /\ UNCHANGED loaded
  /\ FormatFrame
  /\ CallerFrame

\* from_dict(to_dict(script))
FromDict ==
  /\ pc = "serialized"
  /\ loaded' = from_dict(document)
  /\ pc' = IF IsError(loaded') THEN "load_raised" ELSE "loaded"
  /\ UNCHANGED document
  /\ FormatFrame
  /\ CallerFrame

\* load_from_file on a file written by hand: from_dict of its document
LoadForeign ==
  /\ pc = "new"
  /\ \E doc \in ForeignDocuments(metadata, hosts, segments) :
       /\ document' = doc
       /\ loaded' = from_dict(doc)
  /\ pc' = IF IsError(loaded') THEN "foreign_raised" ELSE "foreign_loaded"
  /\ FormatFrame
  /\ CallerFrame

InitFormat ==
  /\ pc = "new"
  /\ mode \in PodcastMode
  /\ target_duration \in 0..MaxTarget
  /\ hosts \in FormatHostLists
  /\ segments \in SeqsOf(FormatSegments, 0, MaxSegs)
  /\ title_arg = <<"T">>
  /\ custom_hosts = hosts
  /\ api_key = "openrouter"
  /\ \E source \in FormatSources, created \in FormatDatetimes :
       metadata = ScriptMetadataAt(title_arg, target_duration, mode, source,
                                   created)
  /\ chat_calls = <<>>
  /\ title_response = <<>>
  /\ response = <<>>
  /\ rounding = NoRounding
  /\ script = None
  /\ result = None
  /\ refit = None
  /\ InitIo

NextFormat == Construct \/ AdjustTiming \/ ToDict \/ FromDict \/ LoadForeign

SpecFormat == InitFormat /\ [][NextFormat]_vars

(***************************************************************************)
(* The callers: generate_podcast_task of api/routers/podcast.py, the       *)
(* generate command of cli/cli.py, and the speech engine they end with     *)
(***************************************************************************)
\* str(uuid.uuid4()): the one job of the scenario
JobId == "job-1"

HTTPException(status_code) == [exc |-> "HTTPException", msg |-> status_code]
NameError == [exc |-> "NameError", msg |-> "name 'MagicMock' is not defined"]
OSError == [exc |-> "OSError", msg |-> "write failed"]
SynthesisError == [exc |-> "SynthesisError", msg |-> "synthesize failed"]

\* get_llm_client of dependencies.py (lines 11-24) and of cli.py (lines
\* 23-36): the client made from the settings, "none" where the function
\* raises instead
ConfiguredClient ==
  CASE api_key = "openrouter" -> "OpenRouterClient"
    [] api_key = "openai" -> "OpenAIClient"
    [] OTHER -> "none"

\* podcast.py lines 303-311, cli.py lines 175-178: total_usage of the two
\* client classes is an LLMUsage, which has no attribute cost_usd
AttributeError ==
  [exc |-> "AttributeError",
   msg |-> "'LLMUsage' object has no attribute 'cost_usd'"]

UsageRaises == llm_client \in {"OpenRouterClient", "OpenAIClient"}

\* lines 92-103: the entry create_podcast makes; progress is kept in
\* hundredths (0.1 is 10, 1.0 is 100)
PendingJob ==
  [status |-> "pending", progress |-> 0, message |-> "Job created",
   completed_at |-> "None", audio_url |-> "None", script_url |-> "None",
   error |-> "None"]

\* a table in which every update reaches every entry
UpdatedEvery(table, job_id, changes) ==
  [k \in DOMAIN table |-> changes @@ table[k]]

\* job_status[job_id].update(changes), the job being in the table
UpdatedOf(table, job_id, changes) == [table EXCEPT ![job_id] = changes @@ @]

Updated(table, changes) == UpdatedOf(table, JobId, changes)

\* an except branch that also sets the progress of the failed job to 1.0
FailJobFullProgress(table, error) ==
  IF JobId \in DOMAIN table
    THEN Updated(table, [status |-> "failed", progress |-> 100,
                         message |-> "Podcast generation failed",
                         completed_at |-> "now",
                         error |-> error.msg])
    ELSE table

\* lines 326-333: the except branch; when the job has been deleted its own
\* update raises KeyError and the table stays as it is
FailJob(table, error) ==
  IF JobId \in DOMAIN table
    THEN Updated(table, [status |-> "failed",
                         message |-> "Podcast generation failed",
                         completed_at |-> "now",
                         error |-> error.msg])
    ELSE table

PlannerFrame ==
  UNCHANGED <<mode, target_duration, title_arg, custom_hosts, api_key, hosts,
              metadata, chat_calls, title_response, response, segments,
              rounding, script, refit, document, loaded, caller, llm_client,
              speech_engine, tasks>>

\* create_podcast, lines 65-119, with its dependency get_llm_client
\* (dependencies.py, lines 11-24), which runs before the handler
CreatePodcast ==
  /\ pc = "request"
  /\ caller = "api"
  /\ IF llm_client = "none"
       THEN /\ result' = HTTPException(500)
            /\ pc' = "refused"
            /\ UNCHANGED job_status
       ELSE /\ job_status' = (JobId :> PendingJob) @@ job_status
            /\ pc' = "queued"
            /\ UNCHANGED result
  /\ UNCHANGED <<script_file, tts_requests, final_audio>>
  /\ PlannerFrame

\* generate_podcast_task, lines 263-275, up to the call of generate_script
TaskStart ==
  /\ pc = "queued"
  /\ IF JobId \in DOMAIN job_status
       THEN /\ job_status' =
                 Updated(job_status,
                         [status |-> "processing", progress |-> 10,
                          message |-> "Initializing script generation..."])
            /\ pc' = "start"
       ELSE /\ UNCHANGED job_status
            /\ pc' = "task_died"
  /\ UNCHANGED <<result, script_file, tts_requests, final_audio>>
  /\ PlannerFrame

\* the generate command of the CLI, lines 58-128, with its get_llm_client
\* (lines 23-36), whose fallback names MagicMock without importing it
CliStart ==
  /\ pc = "request"
  /\ caller = "cli"
  /\ IF llm_client = "none"
       THEN result' = NameError /\ pc' = "cli_exit"
       ELSE UNCHANGED result /\ pc' = "start"
  /\ UNCHANGED <<job_status, script_file, tts_requests, final_audio>>
  /\ PlannerFrame

\* a task without the except branch: the error of generate_script escapes
GenerationFailedEscapes ==
  /\ pc = "raised"
  /\ caller \in {"api", "cli"}
  /\ pc' = "done"
  /\ UNCHANGED <<job_status, result, script_file, tts_requests, final_audio>>
  /\ PlannerFrame

\* generate_script raised: the except branch of the caller
GenerationFailed ==
  /\ pc = "raised"
  /\ caller \in {"api", "cli"}
  /\ job_status' = FailJob(job_status, result)
  /\ pc' = "done"
  /\ UNCHANGED <<result, script_file, tts_requests, final_audio>>
  /\ PlannerFrame

\* a task that publishes the script location as soon as the file is written
PersistScriptPublishing ==
  /\ pc = "returned"
  /\ caller \in {"api", "cli"}
  /\ IF caller = "api" /\ JobId \notin DOMAIN job_status
       THEN /\ pc' = "task_died"
            /\ UNCHANGED <<job_status, script_file>>
       ELSE /\ job_status' =
                 IF caller = "api"
                   THEN Updated(job_status,
                                [progress |-> 50,
                                 message |-> "Script generated",
                                 script_url |-> "script.podcast.yaml"])
                   ELSE job_status
            /\ script_file' = to_dict(result)
            /\ pc' = "saved"
  /\ UNCHANGED <<result, tts_requests, final_audio>>
  /\ PlannerFrame

\* generate_script returned: podcast.py lines 283-294 (cli.py lines 139-144),
\* the script is written to its file
PersistScript ==
  /\ pc = "returned"
  /\ caller \in {"api", "cli"}
  /\ IF caller = "api" /\ JobId \notin DOMAIN job_status
       THEN /\ pc' = "task_died"
            /\ UNCHANGED <<job_status, script_file>>
       ELSE /\ job_status' = IF caller = "api"
                                THEN Updated(job_status,
                                             [progress |-> 50,
                                              message |-> "Script generated"])
                                ELSE job_status
            /\ script_file' = to_dict(result)
            /\ pc' = "saved"
  /\ UNCHANGED <<result, tts_requests, final_audio>>
  /\ PlannerFrame

\* the same, the directory or the file failing to open in save_to_file: the
\* except branch follows at once
PersistFails ==
  /\ pc = "returned"
  /\ caller \in {"api", "cli"}
  /\ IF caller = "api" /\ JobId \notin DOMAIN job_status
       THEN pc' = "task_died" /\ UNCHANGED job_status
       ELSE /\ job_status' =
                 FailJob(IF caller = "api"
                           THEN Updated(job_status,
                                        [progress |-> 50,
                                         message |-> "Script generated"])
                           ELSE job_status,
                         OSError)
            /\ pc' = "done"
  /\ UNCHANGED <<result, script_file, tts_requests, final_audio>>
  /\ PlannerFrame

\* lines 302-324 after synthesize returned: the usage statistics are read
\* and the job is completed; AttributeError leads to the except branch, and
\* the table is left alone when the job is gone (KeyError)
CompleteJob(table) ==
  IF caller # "api" \/ JobId \notin DOMAIN table THEN table
  ELSE IF UsageRaises THEN FailJob(table, AttributeError)
  ELSE Updated(table, [status |-> "completed", progress |-> 100,
                       message |-> "Podcast generated successfully",
                       completed_at |-> "now",
                       audio_url |-> "episode.mp3",
                       script_url |-> "script.podcast.yaml"])

\* speech_engine.synthesize(script, audio_file) returns: google.py lines
\* 38-85 or 151-165, then podcast.py lines 302-324
SynthesizeReturns ==
  /\ pc = "saved"
  /\ IF speech_engine = "google"
       THEN /\ tts_requests' = SynthesisRequests(result, Len(result.segments))
            /\ final_audio' = AudioSegments(result, 1)
       ELSE /\ UNCHANGED tts_requests
            /\ \E ms \in MockDurations(result) : final_audio' = MockAudio(ms)
  /\ job_status' = CompleteJob(job_status)
  /\ pc' = "done"
  /\ UNCHANGED <<result, script_file>>
  /\ PlannerFrame

\* the provider fails on the k-th segment: synthesize raises, nothing is
\* exported, and the except branch of the caller follows
SynthesizeFails ==
  /\ pc = "saved"
  /\ speech_engine = "google"
  /\ \E k \in 1..Len(result.segments) :
       tts_requests' = SynthesisRequests(result, k)
  /\ job_status' = IF caller = "api" THEN FailJob(job_status, SynthesisError)
                    ELSE job_status
  /\ pc' = "done"
  /\ UNCHANGED <<result, script_file, final_audio>>
  /\ PlannerFrame

\* get_podcast_status, lines 162-168: the status reported for the job, the
\* answer 404 standing for a job that is not in the table
ReportedStatus ==
  IF JobId \in DOMAIN job_status THEN job_status[JobId].status
  ELSE "not found"

\* delete_podcast_job, lines 233-251: the files of a job that has URLs are
\* unlinked and the entry is removed, whatever the task is doing
DeleteJob ==
  /\ caller = "api"
  /\ JobId \in DOMAIN job_status
  /\ script_file' = IF job_status[JobId].script_url # "None" THEN None
                     ELSE script_file
  /\ final_audio' = IF job_status[JobId].audio_url # "None" THEN NoAudio
                     ELSE final_audio
  /\ job_status' = NoJobs
  /\ UNCHANGED <<pc, result, tts_requests>>
  /\ PlannerFrame

(***************************************************************************)
(* One job: a request to the API or a run of the CLI, from the request to  *)
(* the audio file                                                          *)
(***************************************************************************)
\* PodcastRequest.duration, Field(300, ge=30, le=1800): the shortest episode
\* the API accepts
MinDuration == 30

\* the modes of the jobs: multi-agent runs the code of single-llm
\* (planner.py, _generate_multi_agent_script)
JobModes == {SOLO, SINGLE_LLM}

InitJob ==
  /\ pc = "request"
  /\ caller \in {"api", "cli"}
  /\ api_key \in ApiKeys
  /\ llm_client \in (IF caller = "api" THEN {ConfiguredClient, "injected"}
                      ELSE {ConfiguredClient})
  /\ speech_engine \in {"google", "mock"}
  /\ mode \in JobModes
  /\ target_duration = (IF caller = "api" THEN MinDuration ELSE MaxTarget)
  /\ title_arg \in { <<>>, <<"T">> }
  /\ custom_hosts = <<>>
  /\ hosts = <<>>
  /\ metadata = None
  /\ chat_calls = <<>>
  /\ title_response = <<>>
  /\ response = <<>>
  /\ segments = <<>>
  /\ rounding = NoRounding
  /\ script = None
  /\ result = None
  /\ refit = None
  /\ document = None
  /\ loaded = None
  /\ job_status = NoJobs
  /\ tasks = NoTasks
  /\ script_file = None
  /\ tts_requests = <<>>
  /\ final_audio = NoAudio

NextJob ==
  \/ CreatePodcast
  \/ TaskStart
  \/ CliStart
  \/ CallWithTitle
  \/ CallWithoutTitle
  \/ TitleReturns
  \/ TitleFails
  \/ BodyReturns
  \/ BodyFails
  \/ GenerationFailed
  \/ PersistScript
  \/ PersistFails
  \/ SynthesizeReturns
  \/ SynthesizeFails
  \/ DeleteJob

SpecJob == InitJob /\ [][NextJob]_vars

\* generate_script called with the durations the API accepts, from the
\* shortest on
InitRequest ==
  /\ target_duration \in MinDuration..(MinDuration + MaxOverMin)
  /\ pc = "start"
  /\ mode \in PodcastMode
  /\ title_arg \in { <<>>, <<"T">> }
  /\ custom_hosts = <<>>
  /\ api_key = "openai"
  /\ hosts = <<>>
  /\ metadata = None
  /\ chat_calls = <<>>
  /\ title_response = <<>>
  /\ response = <<>>
  /\ segments = <<>>
  /\ rounding = NoRounding
  /\ script = None
  /\ result = None
  /\ refit = None
  /\ InitIo

SpecRequest == InitRequest /\ [][Next]_vars

\* the steps of the background task: the event loop runs the task whenever
\* it can go on, and every provider call returns or raises; nothing obliges
\* a client to send requests
TaskStep ==
  \/ TaskStart
  \/ CallWithTitle
  \/ CallWithoutTitle
  \/ TitleReturns
  \/ TitleFails
  \/ BodyReturns
  \/ BodyFails
  \/ GenerationFailed
  \/ PersistScript
  \/ PersistFails
  \/ SynthesizeReturns
  \/ SynthesizeFails

\* the jobs of the API in solo mode, the speech engine being the provider's
InitApiJob ==
  /\ caller = "api"
  /\ mode = SOLO
  /\ speech_engine = "google"
  /\ InitJob

NextApiJob == CreatePodcast \/ TaskStep \/ DeleteJob

SpecJobLive == InitApiJob /\ [][NextApiJob]_vars /\ WF_vars(TaskStep)

(***************************************************************************)
(* Several jobs at once: the tasks of the API interleaved at their awaits, *)
(* generate_script taken as one call that returns or raises                *)
(***************************************************************************)
\* the job ids that uuid4 hands out
JobIds == {"job-1", "job-2"}

FailJobOf(table, job_id, error) ==
  UpdatedOf(table, job_id,
            [status |-> "failed", message |-> "Podcast generation failed",
             completed_at |-> "now", error |-> error.msg])

\* what a stretch of generate_podcast_task between two awaits does to the
\* table, the entry of the job being there:
\*   start          lines 265-269
\*   raised         generate_script raised, lines 326-333
\*   saved          lines 283-294
\*   save_raised    line 283, save_to_file raising, lines 326-333
\*   synthesized    lines 302-322, or 326-333 when the usage cannot be read
\*   synth_raised   synthesize raised, lines 326-333
TaskEffect(table, job_id, step, client) ==
  CASE step = "start" ->
         UpdatedOf(table, job_id,
                   [status |-> "processing", progress |-> 10,
                    message |-> "Initializing script generation..."])
    [] step = "raised" -> FailJobOf(table, job_id, ProviderError)
    [] step = "saved" ->
         UpdatedOf(table, job_id,
                   [progress |-> 50, message |-> "Script generated"])
    [] step = "save_raised" ->
         FailJobOf(UpdatedOf(table, job_id,
                             [progress |-> 50, message |-> "Script generated"]),
                   job_id, OSError)
    [] step = "synthesized" ->
         IF client \in {"OpenRouterClient", "OpenAIClient"}
           THEN FailJobOf(table, job_id, AttributeError)
           ELSE UpdatedOf(table, job_id,
                          [status |-> "completed", progress |-> 100,
                           message |-> "Podcast generated successfully",
                           completed_at |-> "now",
                           audio_url |-> "episode.mp3",
                           script_url |-> "script.podcast.yaml"])
    [] step = "synth_raised" -> FailJobOf(table, job_id, SynthesisError)

\* the stretches that can follow, by the place of the task
StepsAt(at) ==
  CASE at = "queued" -> {"start"}
    [] at = "generating" -> {"raised", "saved", "save_raised"}
    [] at = "synthesizing" -> {"synthesized", "synth_raised"}
    [] OTHER -> {}

PlaceAfter(step) ==
  CASE step = "start" -> "generating"
    [] step = "saved" -> "synthesizing"
    [] OTHER -> "done"

\* the files the stretch leaves in the working directory of the job; the
\* update of a deleted job raises KeyError before save_to_file is reached,
\* while synthesize has written its file before the update that follows it
FilesAfter(files, step, present) ==
  CASE step = "saved" /\ present -> files \cup {"script.podcast.yaml"}
    [] step = "synthesized" -> files \cup {"episode.mp3"}
    [] OTHER -> files

NewTask(client) ==
  [at |-> "none", client |-> client, steps |-> <<>>, files |-> {}]

JobsFrame ==
  UNCHANGED <<pc, mode, target_duration, title_arg, custom_hosts, api_key,
              hosts, metadata, chat_calls, title_response, response, segments,
              rounding, script, result, refit, document, loaded, caller,
              llm_client, speech_engine, script_file, tts_requests,
              final_audio>>

\* create_podcast for a new job id, lines 88-113
CreateJobOf(job_id) ==
  /\ tasks[job_id].at = "none"
  /\ job_status' = (job_id :> PendingJob) @@ job_status
  /\ tasks' = [tasks EXCEPT ![job_id].at = "queued"]
  /\ JobsFrame

\* the task of the job runs to its next await, or to its end
TaskStepOf(job_id) ==
  /\ \E step \in StepsAt(tasks[job_id].at) :
       LET present == job_id \in DOMAIN job_status
       IN  /\ job_status' =
                 IF present
                   THEN TaskEffect(job_status, job_id, step,
                                   tasks[job_id].client)
                   ELSE job_status
           /\ tasks' =
                 [tasks EXCEPT
                    ![job_id].at = IF present THEN PlaceAfter(step)
                                   ELSE "task_died",
                    ![job_id].steps = Append(@, step),
                    ![job_id].files = FilesAfter(@, step, present)]
  /\ JobsFrame

\* delete_podcast_job for the job id, lines 233-251
DeleteJobOf(job_id) ==
  /\ job_id \in DOMAIN job_status
  /\ job_status' = [k \in DOMAIN job_status \ {job_id} |-> job_status[k]]
  /\ tasks' =
       [tasks EXCEPT
          ![job_id].files =
             @ \ ({f \in {"script.podcast.yaml"} :
                     job_status[job_id].script_url # "None"}
                  \cup {f \in {"episode.mp3"} :
                     job_status[job_id].audio_url # "None"})]
  /\ JobsFrame

InitJobs ==
  /\ pc = "request"
  /\ mode = SINGLE_LLM
  /\ target_duration = MinDuration
  /\ title_arg = <<"T">>
  /\ custom_hosts = <<>>
  /\ api_key = "openai"
  /\ hosts = <<>>
  /\ metadata = None
  /\ chat_calls = <<>>
  /\ title_response = <<>>
  /\ response = <<>>
  /\ segments = <<>>
  /\ rounding = NoRounding
  /\ script = None
  /\ result = None
  /\ refit = None
  /\ document = None
  /\ loaded = None
  /\ caller = "api"
  /\ llm_client = "injected"
  /\ speech_engine = "mock"
  /\ job_status = NoJobs
  /\ script_file = None
  /\ tts_requests = <<>>
  /\ final_audio = NoAudio
  /\ tasks \in [JobIds -> {NewTask(c) : c \in {"OpenAIClient", "injected"}}]

NextJobs ==
  \E job_id \in JobIds :
     \/ CreateJobOf(job_id)
     \/ TaskStepOf(job_id)
     \/ DeleteJobOf(job_id)

SpecJobs == InitJobs /\ [][NextJobs]_vars

(***************************************************************************)
(* The speech engine on its own: a saved script is synthesized             *)
(***************************************************************************)
\* a caller's host whose voice handle has two parts between dashes
Gus == Host(<<"G">>, "guest", <<"e", "-", "G">>)

SpeechHostLists ==
  { <<Alex>>, <<DrAda, Ben>>, <<Eve, Ben>>, <<Gus, Alex>>, <<Alex, AlexTwin>> }

SpeechSegments ==
  {Segment(name, text) :
     name \in {Alex.name, Ben.name, DrAda.name, Eve.name, Gus.name},
     text \in {<<"x">>, <<"y">>}}

InitSpeech ==
  /\ pc = "saved"
  /\ mode = SINGLE_LLM
  /\ target_duration = 1
  /\ title_arg = <<"T">>
  /\ hosts \in SpeechHostLists
  /\ custom_hosts = hosts
  /\ api_key = "openrouter"
  /\ metadata = ScriptMetadata(title_arg, target_duration, mode, NoDocument)
  /\ chat_calls = <<>>
  /\ title_response = <<>>
  /\ response = <<>>
  /\ segments \in SeqsOf(SpeechSegments, 1, MaxSegs)
  /\ SpeakersKnown(hosts, segments)
  /\ rounding = NoRounding
  /\ script = Script(metadata, hosts, segments)
  /\ result = script
  /\ refit = None
  /\ document = None
  /\ loaded = None
  /\ caller = "library"
  /\ llm_client = "injected"
  /\ speech_engine \in {"google", "mock"}
  /\ job_status = NoJobs
  /\ tasks = NoTasks
  /\ script_file = to_dict(result)
  /\ tts_requests = <<>>
  /\ final_audio = NoAudio

NextSpeech == SynthesizeReturns \/ SynthesizeFails

SpecSpeech == InitSpeech /\ [][NextSpeech]_vars

(***************************************************************************)
(* Properties of the data model and of the timing-fit step (SpecScript)    *)
(***************************************************************************)
\* s is a proper prefix of t
IsProperPrefix(s, t) == Len(s) < Len(t) /\ s = SubSeq(t, 1, Len(s))

\* a segment whose speaker is the name of no host of the list
Dangling(hs, segs) ==
  \E i \in DOMAIN segs : \A h \in DOMAIN hs : hs[h].name # segs[i].speaker

\* the Script values a state holds
ScriptsHeld == {x \in {script, result, refit, loaded} : IsScript(x)}

\* the words of a segment list, counted from the fitted scripts' texts
WordsOf(segs) == total_words(segs)

\* C1: constructing a Script from hosts and segments fails with a validation
\* error whenever some segment's speaker is not the name of a host of the
\* same Script, so every Script that exists has all its segment speakers
\* among its hosts.
C1_DanglingSpeakerRejected ==
  /\ (pc # "new" /\ Dangling(hosts, segments))
       => (pc = "rejected" /\ IsError(script))
  /\ \A x \in ScriptsHeld : ~Dangling(x.hosts, x.segments)

\* hosts = [Alex] and a segment spoken by Ben: the construction was refused
C1_Witness ==
  /\ pc = "rejected"
  /\ hosts = <<Alex>>
  /\ \E i \in DOMAIN segments : segments[i].speaker = Ben.name
  /\ \A i \in DOMAIN segments : segments[i].speaker \in {Alex.name, Ben.name}
  /\ script = ValueError("Speaker not found in hosts")

\* the timing-fit step returned a script with other segments than it got
Trimmed ==
  /\ pc \in {"fitted", "refitted"}
  /\ result.segments # script.segments

\* C2: when the timing-fit step trims a script, the segments that remain are
\* a prefix of the original ones (same segments, same order, same text), their
\* estimated duration is at most the target, and the metadata and the hosts
\* are those of the original script.
C2_TrimKeepsPrefix ==
  Trimmed =>
    /\ IsProperPrefix(result.segments, script.segments)
    /\ WordsOf(result.segments) * 60 <= target_duration * words_per_minute
    /\ ~DurationGT(result.segments, target_duration, rounding)
    /\ result.meta = script.meta
    /\ result.hosts = script.hosts

\* a script of three segments trimmed to its first two
C2_Witness ==
  /\ Trimmed
  /\ Len(script.segments) = 3
  /\ Len(result.segments) = 2
  /\ script.segments[1].speaker # script.segments[2].speaker

\* |estimated duration - target| < 5% of the target, in exact arithmetic
StrictlyInBand(segs, t) ==
  Abs(WordsOf(segs) * 60 * 100 - t * words_per_minute * 100)
    < t * 5 * words_per_minute

\* |estimated duration - target| = 5% of the target exactly: the one case
\* where the floats decide
OnBandEdge(segs, t) ==
  Abs(WordsOf(segs) * 60 * 100 - t * words_per_minute * 100)
    = t * 5 * words_per_minute

\* |estimated duration - target| <= 5% of the target, in exact arithmetic
WithinFivePercent(segs, t) == StrictlyInBand(segs, t) \/ OnBandEdge(segs, t)

\* C4: the timing-fit step returns the script unchanged whenever its
\* estimated duration is within 5% of the target
\* (|duration - target| <= 0.05 * target) or shorter than the target; it only
\* ever removes segments, and only from a script whose estimated duration
\* exceeds the target by more than 5%; it makes no generation call.
C4_AsClaimed ==
  pc \in {"fitted", "fit_raised", "refitted"} =>
    /\ ( \/ WithinFivePercent(script.segments, target_duration)
         \/ WordsOf(script.segments) * 60 < target_duration * words_per_minute )
       => result = script
    /\ result # script =>
         /\ WordsOf(script.segments) * 60 > target_duration * words_per_minute
         /\ ~WithinFivePercent(script.segments, target_duration)
    /\ chat_calls = <<>>

\* what the code does keep of C4: the script comes back unchanged when it is
\* shorter than the target or strictly inside the band, only an overlong
\* script outside the band is changed, and no generation call is made; a
\* script exactly 5% over the target is changed when the float subtraction
\* of line 240 rounds up
C4_UnchangedWithinBandOrShort ==
  pc \in {"fitted", "fit_raised", "refitted"} =>
    /\ ( \/ StrictlyInBand(script.segments, target_duration)
         \/ WordsOf(script.segments) * 60 < target_duration * words_per_minute )
       => result = script
    /\ result # script =>
         /\ WordsOf(script.segments) * 60 > target_duration * words_per_minute
         /\ ~StrictlyInBand(script.segments, target_duration)
         /\ OnBandEdge(script.segments, target_duration)
              => rounding.band[Len(script.segments)] > 0
    /\ chat_calls = <<>>

\* a script exactly 5% over its target (21 words against 8 s) that the
\* timing-fit step did not return: its only segment was trimmed away
C4_EdgeRefused ==
  /\ pc = "fit_raised"
  /\ target_duration = 8
  /\ Len(script.segments) = 1
  /\ WordsOf(script.segments) = 21
  /\ OnBandEdge(script.segments, target_duration)
  /\ result = ValueError("Script must have at least one segment")

\* a script longer than its target but within the band came back unchanged
C4_Witness ==
  /\ pc = "fitted"
  /\ WordsOf(script.segments) * 60 > target_duration * words_per_minute
  /\ StrictlyInBand(script.segments, target_duration)
  /\ result = script

\* C5: the timing-fit step is idempotent: applied to the script it returned,
\* with the same target, it returns that script again.
C5_FitIdempotent ==
  pc = "refitted" => refit = result

\* a script that the first application trimmed and the second left alone
C5_Witness ==
  /\ pc = "refitted"
  /\ IsProperPrefix(result.segments, script.segments)
  /\ refit = result

(***************************************************************************)
(* Properties of the parsers (SpecParse) and of generate_script (Spec)     *)
(***************************************************************************)
\* the elements of a set of numbers in increasing order
SortedSeq(S) ==
  CHOOSE f \in [1..Cardinality(S) -> S] :
    \A a, b \in DOMAIN f : a < b => f[a] < f[b]

\* the lines of a response, each trimmed
LinesOf(resp) ==
  LET ls == Split(resp, <<NL>>) IN [i \in DOMAIN ls |-> Strip(ls[i])]

\* the host names n such that the line begins with n and a colon
NamesLabelling(line, hs) ==
  {n \in HostNames(hs) :
     /\ Len(line) > Len(n)
     /\ \A c \in 1..Len(n) : line[c] = n[c]
     /\ line[Len(n) + 1] = ":"}

\* the lines that carry the label of a host
LabelLines(resp, hs) ==
  {i \in DOMAIN LinesOf(resp) : NamesLabelling(LinesOf(resp)[i], hs) # {}}

\* the trimmed text after the colon of a line labelled n
AfterColon(line, n) == Strip(SubSeq(line, Len(n) + 2, Len(line)))

\* the non-blank lines between label line i and the next label line
FollowUps(resp, hs, i) ==
  {j \in DOMAIN LinesOf(resp) :
     /\ j > i
     /\ LinesOf(resp)[j] # <<>>
     /\ \A k \in (i + 1)..j : k \notin LabelLines(resp, hs)}

\* what label line i, labelled n, contributes: the text after its colon, if
\* any, then its follow-up lines
BlockParts(resp, hs, i, n) ==
  LET follow == SortedSeq(FollowUps(resp, hs, i))
  IN  (IF AfterColon(LinesOf(resp)[i], n) # <<>>
         THEN <<AfterColon(LinesOf(resp)[i], n)>> ELSE <<>>)
      \o [k \in DOMAIN follow |-> LinesOf(resp)[follow[k]]]

\* the label lines with neither text after the colon nor a follow-up line
BareLabelLines(resp, hs) ==
  {i \in LabelLines(resp, hs) :
     /\ FollowUps(resp, hs, i) = {}
     /\ \A n \in NamesLabelling(LinesOf(resp)[i], hs) :
          AfterColon(LinesOf(resp)[i], n) = <<>>}

\* the label lines that contribute a segment, in order
Opened(resp, hs) ==
  SortedSeq(LabelLines(resp, hs) \ BareLabelLines(resp, hs))

\* the speaker list in effect: the caller's when given, else the registry's
HostsInEffect ==
  IF custom_hosts # <<>> THEN custom_hosts
  ELSE CASE mode = SOLO -> <<Alex>>
         [] mode = SINGLE_LLM -> <<DrAda, Ben>>
         [] mode = MULTI_AGENT -> <<DrAda, Ben, Chloe>>

\* the response "D:x", "B: x x", "D:x" on three lines
ThreeLabelledLines ==
  <<"D", ":", "x", NL, "B", ":", " ", "x", " ", "x", NL, "D", ":", "x">>

\* C6: multi-speaker parsing opens a segment for speaker S exactly at the
\* lines that, trimmed, begin with "S:" for a name S (case-sensitive) of the
\* speaker list in effect, the caller's list when one is given and the
\* registry's otherwise; the segments come out in the order of those lines,
\* each beginning with the trimmed text after the colon, and three labelled
\* lines for Dr. Ada, Ben, Dr. Ada give three segments in that order.
C6_SegmentsFollowLabels ==
  (pc \in {"returned", "raised"} /\ mode # SOLO) =>
    LET ls == LinesOf(response)
        opened == Opened(response, HostsInEffect)
    IN  /\ hosts = HostsInEffect
        /\ Len(segments) = Len(opened)
        /\ \A k \in DOMAIN segments :
             LET line == ls[opened[k]]
                 first == AfterColon(line, segments[k].speaker)
             IN  /\ segments[k].speaker \in NamesLabelling(line, HostsInEffect)
                 /\ Len(first) <= Len(segments[k].text)
                 /\ SubSeq(segments[k].text, 1, Len(first)) = first
        /\ response = ThreeLabelledLines /\ custom_hosts = <<>>
             => segments = << Segment(DrAda.name, <<"x">>),
                              Segment(Ben.name, <<"x", " ", "x">>),
                              Segment(DrAda.name, <<"x">>) >>

\* the three labelled lines were parsed against the registry's hosts
C6_Witness ==
  /\ pc = "returned"
  /\ mode = SINGLE_LLM
  /\ custom_hosts = <<>>
  /\ response = ThreeLabelledLines
  /\ Len(segments) = 3
  /\ [k \in 1..3 |-> segments[k].speaker]
       = <<DrAda.name, Ben.name, DrAda.name>>

\* C7: in multi-speaker parsing a non-blank line that opens no segment (no
\* label, a label for an unknown name, a label in another case) is appended,
\* joined by a space, to the text of the open segment; such lines before the
\* first recognised label are discarded, and the segment open at the end of
\* the input is emitted.
C7_OtherLinesFoldIntoOpenSegment ==
  (pc = "parsed" /\ mode # SOLO) =>
    LET opened == Opened(response, hosts)
    IN  /\ Len(segments) = Len(opened)
        /\ \A k \in DOMAIN segments :
             segments[k].text =
               Join(BlockParts(response, hosts, opened[k],
                               segments[k].speaker), <<" ">>)

\* "x", "D:x", "d:x", "x": the first line is dropped, the last two are folded
\* into Dr. Ada's segment, which is emitted at the end of the input
C7_Witness ==
  /\ pc = "parsed"
  /\ mode = SINGLE_LLM
  /\ response = <<"x", NL, "D", ":", "x", NL, "d", ":", "x">>
  /\ segments = <<Segment(DrAda.name, <<"x", " ", "d", ":", "x">>)>>

\* position p of the response lies in a run of two or more newlines
InBreak(resp, p) ==
  /\ resp[p] = NL
  /\ \/ (p > 1 /\ resp[p - 1] = NL)
     \/ (p < Len(resp) /\ resp[p + 1] = NL)

\* the pieces between the runs of two or more newlines, each trimmed, the
\* empty ones left out
Chunks(resp) ==
  LET starts == SortedSeq({p \in 1..Len(resp) :
                   ~InBreak(resp, p) /\ (p = 1 \/ InBreak(resp, p - 1))})
      end(p) == CHOOSE e \in p..Len(resp) :
                  /\ \A q \in p..e : ~InBreak(resp, q)
                  /\ e = Len(resp) \/ InBreak(resp, e + 1)
  IN  SelectSeq([k \in DOMAIN starts |->
                   Strip(SubSeq(resp, starts[k], end(starts[k])))],
                LAMBDA c : c # <<>>)

\* C8: solo parsing splits the response on double newlines, trims each piece
\* and emits one segment per non-empty piece, in order, each spoken by the
\* sole speaker; two paragraphs separated by a blank line give two segments.
C8_SoloOneSegmentPerParagraph ==
  (pc = "parsed" /\ mode = SOLO) =>
    /\ Len(segments) = Len(Chunks(response))
    /\ \A k \in DOMAIN segments :
         /\ segments[k].speaker = hosts[1].name
         /\ segments[k].text = Chunks(response)[k]

\* "A:x", "", "x": two paragraphs, two segments of Alex
C8_Witness ==
  /\ pc = "parsed"
  /\ mode = SOLO
  /\ hosts = <<Alex>>
  /\ response = <<"A", ":", "x", NL, NL, "x">>
  /\ segments = << Segment(Alex.name, <<"A", ":", "x">>),
                   Segment(Alex.name, <<"x">>) >>

\* C9: no parser emits a segment that construction would reject: every
\* emitted segment has a non-empty trimmed text and a speaker of the host list
\* (the sole speaker in solo mode), and a recognised label line with no text
\* after the colon and no continuation line yields no segment.
C9_ParsersEmitValidSegments ==
  pc = "parsed" =>
    /\ result = None
    /\ \A k \in DOMAIN segments :
         /\ Strip(segments[k].text) # <<>>
         /\ Strip(segments[k].speaker) # <<>>
         /\ \E h \in DOMAIN hosts : hosts[h].name = segments[k].speaker
         /\ mode = SOLO => segments[k].speaker = hosts[1].name
    /\ mode # SOLO =>
         Len(segments) = Cardinality(LabelLines(response, hosts))
                           - Cardinality(BareLabelLines(response, hosts))

\* "B:", "D:x": Ben's bare label yields nothing, Dr. Ada's line a segment
C9_Witness ==
  /\ pc = "parsed"
  /\ mode = SINGLE_LLM
  /\ response = <<"B", ":", NL, "D", ":", "x">>
  /\ BareLabelLines(response, hosts) = {1}
  /\ segments = <<Segment(DrAda.name, <<"x">>)>>

\* the body call returned and the parser gave these segments
BodyParsed ==
  /\ chat_calls # <<>>
  /\ chat_calls[Len(chat_calls)].kind = "body"
  /\ chat_calls[Len(chat_calls)].outcome = "returned"

\* C3: if trimming would remove every segment (the first segment alone is
\* longer than the target and the whole script more than 5% over it),
\* generate_script raises the error of the empty script, and it never returns
\* a script without segments.
C3_TrimToNothingRaises ==
  /\ ( /\ BodyParsed
       /\ segments # <<>>
       /\ word_count(segments[1]) * 60 > target_duration * words_per_minute
       /\ WordsOf(segments) * 60 * 100 > target_duration * words_per_minute * 105 )
     => /\ pc = "raised"
        /\ result = ValueError("Script must have at least one segment")
  /\ pc = "returned" => (IsScript(result) /\ result.segments # <<>>)

\* "B: x x", "x" with a target of 1 s: one segment of 1.2 s, trimmed away
C3_Witness ==
  /\ pc = "raised"
  /\ BodyParsed
  /\ target_duration = 1
  /\ segments = <<Segment(Ben.name, <<"x", " ", "x", " ", "x">>)>>
  /\ IsScript(script)
  /\ result = ValueError("Script must have at least one segment")

\* C10: generate_script raises, and returns no Script, when the body response
\* parses to no segment (a multi-speaker response without a line labelled
\* with a known speaker, a blank solo response) and when the title call or the
\* body call fails; the failed call is the last one made.
C10_NoSegmentsOrFailedCallRaises ==
  /\ (BodyParsed /\ segments = <<>>)
       => /\ pc = "raised"
          /\ result = ValueError("Script must have at least one segment")
  /\ \A i \in DOMAIN chat_calls :
       chat_calls[i].outcome = "raised"
         => (pc = "raised" /\ result = ProviderError /\ i = Len(chat_calls))
  /\ pc = "returned"
       => /\ IsScript(result)
          /\ BodyParsed
          /\ \A i \in DOMAIN chat_calls : chat_calls[i].outcome = "returned"

\* a multi-speaker response whose only label is in the wrong case
C10_Witness ==
  /\ pc = "raised"
  /\ BodyParsed
  /\ mode = SINGLE_LLM
  /\ response = <<"d", ":", "x", NL, "x">>
  /\ segments = <<>>
  /\ result = ValueError("Script must have at least one segment")

(***************************************************************************)
(* Properties of Script construction (SpecScript), continued               *)
(***************************************************************************)
\* two hosts of the list have the same name
DuplicateNames(hs) ==
  \E i, j \in DOMAIN hs : i # j /\ hs[i].name = hs[j].name

\* C11: Script construction rejects, as a hard validation failure, a list of
\* hosts in which two hosts have the same name, so host names are unique
\* within every Script that exists.
C11_AsClaimed ==
  /\ (pc # "new" /\ DuplicateNames(hosts))
       => (pc = "rejected" /\ IsError(script))
  /\ \A x \in ScriptsHeld : ~DuplicateNames(x.hosts)

\* a Script was built from two hosts that are both named A
C11_DuplicateAccepted ==
  /\ pc = "constructed"
  /\ hosts = <<Alex, AlexTwin>>
  /\ segments # <<>>
  /\ IsScript(script)
  /\ script.hosts = hosts

\* some argument of the construction is missing: no host, no segment or a
\* duration that is not positive
Lacking == hosts = <<>> \/ segments = <<>> \/ metadata.duration_sec <= 0

\* C12: every Script that is constructed (by the planner's constructor call,
\* by trimming, or by from_dict) has at least one host, at least one segment
\* and a duration > 0; construction fails with a validation error otherwise.
C12_ScriptsNonEmptyPositive ==
  /\ \A x \in ScriptsHeld :
       Len(x.hosts) >= 1 /\ Len(x.segments) >= 1 /\ x.meta.duration_sec > 0
  /\ (pc # "new" /\ Lacking) =>
       \/ pc = "rejected" /\ IsError(script) /\ script.exc = "ValueError"
       \/ pc = "foreign_raised" /\ IsError(loaded)
  /\ pc = "fit_raised" => result.exc = "ValueError"
  /\ pc = "fitted" => IsScript(result)

\* a document with hosts, segments and a duration of 0 was refused by
\* from_dict
C12_Witness ==
  /\ pc = "foreign_raised"
  /\ document = DocumentOf(metadata, hosts, segments)
  /\ metadata.duration_sec = 0
  /\ Len(hosts) = 2
  /\ segments # <<>>
  /\ loaded = ValueError("Duration must be positive")

(***************************************************************************)
(* Properties of the formatter (SpecFormat)                                *)
(***************************************************************************)
\* C15: serialization round-trips losslessly: for every valid Script s,
\* from_dict(to_dict(s)) is a Script equal to s field for field (title,
\* duration, creation timestamp, mode, source document, every host in
\* order, every segment in order), and its derived word count and duration
\* equal those of s.
C15_RoundTrip ==
  /\ pc # "load_raised"
  /\ pc = "loaded" =>
       /\ IsScript(loaded)
       /\ loaded.meta = script.meta
       /\ loaded.hosts = script.hosts
       /\ loaded.segments = script.segments
       /\ total_words(loaded.segments) = total_words(script.segments)
       /\ DurationNum(loaded.segments) = DurationNum(script.segments)

\* a script with a fraction of a second in its timestamp, a source document,
\* two hosts and two segments came back from its document
C15_Witness ==
  /\ pc = "loaded"
  /\ script.meta.created = Datetime(59, 5)
  /\ document.meta.created = <<"5", "9", ".", "0", "0", "0", "0", "0", "5">>
  /\ script.meta.source_document = "paper.pdf"
  /\ Len(script.hosts) = 2
  /\ Len(script.segments) = 2
  /\ loaded = script

\* the positions where a whitespace-delimited token of the text begins
TokenStarts(text) ==
  {i \in DOMAIN text :
     text[i] \notin Whitespace /\ (i = 1 \/ text[i - 1] \in Whitespace)}

\* the sum over the segments of word_count * 60, the numerator over 150 of
\* the sum of word_count / 150 * 60
RECURSIVE SumOfSegmentDurations(_)
SumOfSegmentDurations(segs) ==
  IF segs = <<>> THEN 0
  ELSE Cardinality(TokenStarts(Head(segs).text)) * 60
         + SumOfSegmentDurations(Tail(segs))

\* C13: for every valid Script the total estimated duration equals the sum
\* over its segments of word_count / 150 * 60 (equivalently
\* total_word_count * 60 / 150), word_count being the number of
\* whitespace-delimited tokens of the segment text; it is computed from the
\* current segments and is no stored field of the script or of its document.
\* (The durations are the exact rationals; the floats of the code add the
\* per-segment values, so their sum can differ from total_words * 60 / 150
\* in the last binary digit.)
C13_DurationIsDerived ==
  /\ \A x \in ScriptsHeld :
       /\ DurationNum(x.segments) = SumOfSegmentDurations(x.segments)
       /\ SumOfSegmentDurations(x.segments) = total_words(x.segments) * 60
       /\ \A i \in DOMAIN x.segments :
            word_count(x.segments[i])
              = Cardinality(TokenStarts(x.segments[i].text))
       /\ DOMAIN x = {"meta", "hosts", "segments"}
       /\ \A i \in DOMAIN x.segments :
            DOMAIN x.segments[i] = {"speaker", "text"}
  /\ pc \in {"serialized", "loaded"} =>
       /\ DOMAIN document = {"meta", "hosts", "segments"}
       /\ \A i \in DOMAIN document.segments :
            DOMAIN document.segments[i] = {"speaker", "text"}
       /\ DOMAIN document.meta
            = {"title", "duration_sec", "created", "mode", "source_document"}

\* a script of four words in three segments, the first with two white-space
\* characters between its two words, was trimmed to that segment: the
\* duration of what is left is 2 * 60 / 150 s
C13_Witness ==
  /\ pc = "fitted"
  /\ Len(script.segments) = 3
  /\ DurationNum(script.segments) = 4 * 60
  /\ Len(result.segments) = 1
  /\ result.segments[1].text = <<"x", " ", NL, "x">>
  /\ DurationNum(result.segments) = 2 * 60

(***************************************************************************)
(* Properties of generate_script (Spec), continued                         *)
(***************************************************************************)
\* white space and the two quote characters
TitleWrapping == Whitespace \cup {"\"", "'"}

\* the title call has returned and its title has been stored
TitleStored ==
  /\ title_arg = <<>>
  /\ title_response # <<>>
  /\ metadata # None

\* C14: when no title is supplied, the stored title is the raw title
\* response with surrounding white space and quote characters stripped and
\* nothing else changed: the stored title neither begins nor ends with white
\* space, a double quote or a single quote.
C14_AsClaimed ==
  TitleStored =>
    /\ metadata.title = StripChars(title_response, TitleWrapping)
    /\ Head(metadata.title) \notin TitleWrapping
    /\ metadata.title[Len(metadata.title)] \notin TitleWrapping

\* the response '"T"' (double quotes inside single quotes) was stored as "T",
\* the double quotes kept
C14_QuotesKept ==
  /\ TitleStored
  /\ title_response = <<"'", "\"", "T", "\"", "'">>
  /\ metadata.title = <<"\"", "T", "\"">>

(***************************************************************************)
(* Properties of the speech engine (SpecSpeech)                            *)
(***************************************************************************)
\* the number of speaker changes among the first j segments
SpeakerChanges(segs, j) ==
  Cardinality({k \in 1..(j - 1) : segs[k + 1].speaker # segs[k].speaker})

\* where the chunk of segment j stands in the assembled audio
ChunkPosition(segs, j) == j + SpeakerChanges(segs, j)

Assembled ==
  /\ pc = "done"
  /\ speech_engine = "google"
  /\ final_audio # NoAudio

\* C18: the audio assembled by synthesize holds one chunk per segment, in
\* segment order, and one pause between two consecutive segments exactly when
\* their speakers differ; nothing follows the last chunk.
C18_ChunksAndPauses ==
  Assembled =>
    LET segs == result.segments
        n == Len(segs)
        chunkAt == {ChunkPosition(segs, j) : j \in 1..n}
    IN  /\ Len(final_audio) = n + SpeakerChanges(segs, n)
        /\ \A j \in 1..n :
             /\ final_audio[ChunkPosition(segs, j)].kind = "chunk"
             /\ final_audio[ChunkPosition(segs, j)].text = segs[j].text
        /\ \A q \in DOMAIN final_audio :
             q \notin chunkAt => final_audio[q] = Pause
        /\ final_audio[Len(final_audio)].kind = "chunk"

\* three segments, the speaker changing once and staying once
C18_Witness ==
  /\ Assembled
  /\ Len(result.segments) = 3
  /\ result.segments[1].speaker # result.segments[2].speaker
  /\ result.segments[2].speaker = result.segments[3].speaker
  /\ result.segments[2].text # result.segments[3].text
  /\ Len(final_audio) = 4
  /\ final_audio[2] = Pause

\* C19: every synthesis request carries the voice handle that the script
\* binds to the speaker of its segment, whatever that handle is.
C19_AsClaimed ==
  \A i \in DOMAIN tts_requests :
     tts_requests[i].name =
       get_host_by_name(result, result.segments[i].speaker).voice_id

\* a request made for a speaker whose handle has fewer than three parts
\* between dashes names the default voice instead
C19_HandleReplaced ==
  /\ pc = "done"
  /\ \E i \in DOMAIN tts_requests :
       /\ result.segments[i].speaker = Eve.name
       /\ get_host_by_name(result, Eve.name).voice_id = Eve.voice_id
       /\ Eve.voice_id # <<>>
       /\ tts_requests[i].name = StandardVoice("A")
       /\ tts_requests[i].name # Eve.voice_id

(***************************************************************************)
(* Properties of a job (SpecJob)                                           *)
(***************************************************************************)
Kinds(calls) == [i \in DOMAIN calls |-> calls[i].kind]

LastReturned(calls, kind) ==
  /\ calls # <<>>
  /\ calls[Len(calls)].kind = kind
  /\ calls[Len(calls)].outcome = "returned"

JobDeleted == caller = "api" /\ pc # "request" /\ JobId \notin DOMAIN job_status

\* C16: within a job the steps run in the order title call (only when no
\* title was supplied), body call, parse, timing fit, persist, synthesize;
\* each call is issued at most once, and a step that fails is the last one.
C16_PipelineOrder ==
  /\ Kinds(chat_calls) \in
       (IF title_arg = <<>> THEN { <<>>, <<"title">>, <<"title", "body">> }
        ELSE { <<>>, <<"body">> })
  /\ \A i \in 1..(Len(chat_calls) - 1) : chat_calls[i].outcome = "returned"
  /\ (segments # <<>> \/ script # None) => LastReturned(chat_calls, "body")
  /\ script # None => script = Script(metadata, hosts, segments)
  /\ IsScript(result) =>
       /\ script # None
       /\ result = _adjust_timing(script, target_duration, rounding)
  /\ script_file # None =>
       /\ IsScript(result)
       /\ script_file = to_dict(result)
       /\ pc \in {"saved", "done"}
  /\ (tts_requests # <<>> \/ final_audio # NoAudio) =>
       /\ pc = "done"
       /\ IsScript(result)
       /\ script_file = to_dict(result) \/ JobDeleted
  /\ IsError(result) =>
       /\ script_file = None
       /\ tts_requests = <<>>
       /\ final_audio = NoAudio
  /\ (chat_calls # <<>> /\ chat_calls[Len(chat_calls)].outcome = "raised") =>
       /\ segments = <<>>
       /\ script = None
       /\ script_file = None
       /\ tts_requests = <<>>
       /\ final_audio = NoAudio

\* a job of the API that ran every step, the title call included
C16_Witness ==
  /\ pc = "done"
  /\ caller = "api"
  /\ Kinds(chat_calls) = <<"title", "body">>
  /\ IsScript(result)
  /\ Len(result.segments) = 2
  /\ JobId \in DOMAIN job_status
  /\ script_file = to_dict(result)
  /\ Len(tts_requests) = Len(result.segments)
  /\ final_audio # NoAudio

C20_NoPartialSuccess ==
  \A j \in DOMAIN job_status :
     LET job == job_status[j]
     IN  /\ job.status \in {"pending", "processing", "completed", "failed"}
         /\ job.status = "completed" <=>
               (job.script_url # "None" /\ job.audio_url # "None")
         /\ job.status # "completed" =>
               (job.script_url = "None" /\ job.audio_url = "None")

\* a completed job, both files written
C20_Witness ==
  /\ JobId \in DOMAIN job_status
  /\ job_status[JobId].status = "completed"
  /\ job_status[JobId].script_url # "None"
  /\ job_status[JobId].audio_url # "None"
  /\ script_file # None
  /\ final_audio # NoAudio

JobPresent == JobId \in DOMAIN job_status

JobSettled == job_status[JobId].status \in {"completed", "failed"}

\* C21: every provider call returning or raising, a job that was created and
\* is not deleted reaches status completed or failed, and an error raised by
\* generation, persistence or synthesis ends in status failed with a message
\* and the text of the error.
C21_JobSettles ==
  /\ JobPresent ~> (~JobPresent \/ JobSettled)
  /\ [](JobPresent /\ IsError(result) =>
          job_status[JobId].status \in {"processing", "failed"})
  /\ [](JobPresent /\ job_status[JobId].status = "completed" =>
          /\ IsScript(result)
          /\ script_file = to_dict(result)
          /\ final_audio # NoAudio)
  /\ [](JobPresent /\ job_status[JobId].status = "failed" =>
          /\ job_status[JobId].message = "Podcast generation failed"
          /\ job_status[JobId].error \notin {"None", ""})

\* a job whose synthesis raised, failed with the error's text
C21_Witness ==
  /\ JobPresent
  /\ pc = "done"
  /\ job_status[JobId].status = "failed"
  /\ job_status[JobId].error = SynthesisError.msg
  /\ script_file # None
  /\ tts_requests # <<>>
  /\ final_audio = NoAudio

\* the job was deleted while its task was in the pipeline: the task met the
\* missing entry, or went on to write an audio file that nobody unlinked
AbortedMidPipeline ==
  /\ caller = "api"
  /\ ~JobPresent
  /\ \/ pc = "task_died"
     \/ pc = "done" /\ final_audio # NoAudio

\* C22: a job aborted (deleted) while its task is in the pipeline is marked
\* failed, and is never reported as completed.
C22_AsClaimed ==
  /\ AbortedMidPipeline => ReportedStatus = "failed"
  /\ (caller = "api" /\ ~JobPresent) => ReportedStatus # "completed"

\* the job deleted after its script was saved: the task synthesized the
\* audio all the same, both files exist, and no status is reported at all
C22_AbortedNotFailed ==
  /\ AbortedMidPipeline
  /\ pc = "done"
  /\ ReportedStatus = "not found"
  /\ script_file # None
  /\ tts_requests # <<>>
  /\ final_audio # NoAudio

(***************************************************************************)
(* Properties of jobs running at once (SpecJobs)                           *)
(***************************************************************************)
\* the entry of a job that ran the given stretches with no other job
\* in the table
RECURSIVE RunAlone(_, _, _, _)
RunAlone(table, job_id, client, steps) ==
  IF steps = <<>> THEN table
  ELSE RunAlone(TaskEffect(table, job_id, Head(steps), client),
                job_id, client, Tail(steps))

RECURSIVE FilesAlone(_, _)
FilesAlone(files, steps) ==
  IF steps = <<>> THEN files
  ELSE FilesAlone(FilesAfter(files, Head(steps), TRUE), Tail(steps))

\* C23: jobs running at once do not interfere: the entry and the working
\* directory of every job are, after every interleaving of the tasks, what
\* the job's own task would have made of them alone, and a job without a
\* task has no entry.
C23_NoInterference ==
  /\ \A j \in DOMAIN job_status :
       /\ tasks[j].at # "none"
       /\ job_status[j] =
            RunAlone(j :> PendingJob, j, tasks[j].client, tasks[j].steps)[j]
       /\ tasks[j].files = FilesAlone({}, tasks[j].steps)
  /\ \A j \in JobIds : tasks[j].at = "none" => tasks[j].files = {}

\* two jobs ended differently, each as its own task went
C23_Witness ==
  /\ DOMAIN job_status = JobIds
  /\ job_status["job-1"].status = "completed"
  /\ job_status["job-2"].status = "failed"
  /\ job_status["job-2"].error = SynthesisError.msg
  /\ tasks["job-1"].files = {"script.podcast.yaml", "episode.mp3"}
  /\ tasks["job-2"].files = {"script.podcast.yaml"}

(***************************************************************************)
(* Properties of the solo parser (SpecParse)                               *)
(***************************************************************************)
\* N lines, each the label of the solo host and a text, joined by single
\* newlines
SoloLabelledLines(n) ==
  Join([i \in 1..n |-> Alex.name \o <<":", "x">>], <<NL>>)

\* C24: in solo mode a body response of N lines separated by single
\* newlines, each prefixed with the label of the sole speaker, gives a script
\* of N segments with the one host Alex.
C24_AsClaimed ==
  \A n \in 1..MaxLines :
     (pc = "parsed" /\ mode = SOLO /\ custom_hosts = <<>>
        /\ response = SoloLabelledLines(n))
     => /\ hosts = <<Alex>>
        /\ Len(segments) = n

\* the two lines of the unit test come back as one segment, labels and
\* newline inside its text
C24_OneSegment ==
  /\ pc = "parsed"
  /\ mode = SOLO
  /\ hosts = <<Alex>>
  /\ response = SoloLabelledLines(2)
  /\ segments = << Segment(Alex.name, SoloLabelledLines(2)) >>

(***************************************************************************)
(* Properties of the usage bookkeeping (SpecJob)                           *)
(***************************************************************************)
\* generation, persistence and synthesis have all succeeded for a job that
\* is still in the table
AllStepsSucceeded ==
  /\ caller = "api"
  /\ pc = "done"
  /\ JobPresent
  /\ IsScript(result)
  /\ script_file = to_dict(result)
  /\ final_audio # NoAudio

\* C25: a job run with a client that tracks its usage, whose generation,
\* persistence and synthesis all succeeded, ends completed, not failed.
C25_AsClaimed ==
  (AllStepsSucceeded /\ llm_client \in {"OpenRouterClient", "OpenAIClient"})
    => job_status[JobId].status = "completed"

\* such a job, failed on reading the usage, its two files written
C25_FailedOnUsage ==
  /\ AllStepsSucceeded
  /\ llm_client = "OpenAIClient"
  /\ job_status[JobId].status = "failed"
  /\ job_status[JobId].error = AttributeError.msg
  /\ job_status[JobId].audio_url = "None"

(***************************************************************************)
(* Properties of the body request (SpecRequest)                            *)
(***************************************************************************)
\* round(num / den) of Python: to the nearest whole number, a half going to
\* the even neighbour
RoundHalfEven(num, den) ==
  LET q == num \div den
      r == num % den
  IN  IF 2 * r < den THEN q
      ELSE IF 2 * r > den THEN q + 1
      ELSE IF q % 2 = 0 THEN q ELSE q + 1

\* C26: the target word count of the body request is
\* round(target_duration * 150 / 60), in the solo and in the multi-speaker
\* request alike, 150 being the words per minute of the duration estimate.
C26_AsClaimed ==
  \A i \in DOMAIN chat_calls :
     chat_calls[i].kind = "body" =>
       chat_calls[i].target_words =
         RoundHalfEven(target_duration * words_per_minute, 60)

\* 31 seconds are 77.5 words: the request says 77, round gives 78
C26_Truncated ==
  /\ target_duration = MinDuration + 1
  /\ chat_calls # <<>>
  /\ chat_calls[Len(chat_calls)].kind = "body"
  /\ chat_calls[Len(chat_calls)].target_words = 77
  /\ RoundHalfEven(target_duration * words_per_minute, 60) = 78

(***************************************************************************)
(* Properties of the scripts generate_script returns (Spec)                *)
(***************************************************************************)
\* C27: every Script that generate_script returns has an estimated duration
\* of at most 1.05 times the target, whatever the body response: it is
\* within the band, shorter than the target, or trimmed to the target.
C27_AtMostFivePercentOver ==
  pc = "returned" =>
    /\ IsScript(result)
    /\ DurationNum(result.segments) * 100
         <= (100 + TolerancePercent) * target_duration * words_per_minute
    /\ \/ WithinFivePercent(result.segments, target_duration)
       \/ DurationNum(result.segments) <= target_duration * words_per_minute

\* a response of five words for a target of one second, returned trimmed to
\* its first segment of two words
C27_Witness ==
  /\ pc = "returned"
  /\ target_duration = 1
  /\ total_words(script.segments) >= 4
  /\ IsProperPrefix(result.segments, script.segments)
  /\ total_words(result.segments) = 2

(***************************************************************************)
(* Properties of the trimming (SpecTrim)                                   *)
(***************************************************************************)
\* C28: a trimmed script is the longest prefix of the original segments
\* whose estimated duration is at most the target: with the first removed
\* segment added back it would exceed the target.
C28_AsClaimed ==
  (pc \in {"fitted", "refitted"} /\ result.segments # script.segments) =>
    /\ IsProperPrefix(result.segments, script.segments)
    /\ DurationNum(result.segments) <= target_duration * words_per_minute
    /\ DurationNum(SubSeq(script.segments, 1, Len(result.segments) + 1))
         > target_duration * words_per_minute

\* segments of 2, 7, 1 and 1 words for a target of 4 s: the first three
\* last 4 s exactly, and the fit kept the first two
C28_TieDropped ==
  /\ pc = "fitted"
  /\ target_duration = 4
  /\ Len(script.segments) = 4
  /\ [i \in 1..4 |-> word_count(script.segments[i])] = <<2, 7, 1, 1>>
  /\ DurationNum(SubSeq(script.segments, 1, 3))
       = target_duration * words_per_minute
  /\ result.segments = SubSeq(script.segments, 1, 2)

(***************************************************************************)
(* Properties of the order of the speaker names (SpecOrder)                *)
(***************************************************************************)
\* no name begins with another name followed by a colon
NoLabelPrefix(hs) ==
  \A n, m \in HostNames(hs) : n # m => ~StartsWith(m, n \o <<":">>)

\* the names that label the line, after line.strip()
Labelling(line, hs) == {n \in HostNames(hs) : IsLabel(Strip(line), n)}

\* C29: when no speaker name begins with another name followed by a colon,
\* at most one name labels any line of the response, and every iteration
\* order of the name set gives the segment list the parser returned.
C29_OrderIndependent ==
  (pc = "parsed" /\ mode # SOLO /\ NoLabelPrefix(hosts)) =>
    /\ \A i \in DOMAIN Split(response, <<NL>>) :
         Cardinality(Labelling(Split(response, <<NL>>)[i], hosts)) <= 1
    /\ \A names \in IterationOrders(hosts) :
         _parse_multi_speaker_response(response, names) = segments

\* Ben and Ben Carter both speak: one line for each was parsed
C29_Witness ==
  /\ pc = "parsed"
  /\ mode # SOLO
  /\ hosts = <<Ben, BenCarter>>
  /\ NoLabelPrefix(hosts)
  /\ response = Join(<< <<"B", "e", ":", "x">>, <<"B", ":", "x">> >>, <<NL>>)
  /\ segments = <<Segment(BenCarter.name, <<"x">>), Segment(Ben.name, <<"x">>)>>

(***************************************************************************)
(* Properties of the life of a job (SpecJob)                               *)
(***************************************************************************)
\* the changes of status a step may make
StatusMoves ==
  { <<"pending", "processing">>, <<"processing", "completed">>,
    <<"processing", "failed">> }

\* one step of a job that is in the table before and after it
JobStepForward ==
  (JobId \in DOMAIN job_status /\ JobId \in DOMAIN job_status') =>
    LET before == job_status[JobId]
        after == job_status'[JobId]
    IN  /\ before.status # after.status =>
             <<before.status, after.status>> \in StatusMoves
        /\ before.status \in {"completed", "failed"} =>
             after.status = before.status
        /\ after.progress >= before.progress

\* progress is within [0, 1] (in hundredths) and is 1.0 exactly when the
\* job is completed
ProgressInRange ==
  JobId \in DOMAIN job_status =>
    /\ job_status[JobId].progress \in 0..100
    /\ job_status[JobId].progress = 100
         <=> job_status[JobId].status = "completed"

\* C30: the status of a job only moves pending -> processing -> completed
\* or failed, completed and failed never change, the progress never
\* decreases and stays within [0, 1], and it is 1.0 exactly when the status
\* is completed.
C30_StatusOnlyForward == [][JobStepForward]_vars /\ []ProgressInRange

\* the task went through every step: the job is completed at progress 1.0,
\* with both files written
C30_Witness ==
  /\ pc = "done"
  /\ JobId \in DOMAIN job_status
  /\ job_status[JobId].status = "completed"
  /\ job_status[JobId].progress = 100
  /\ script_file # None
  /\ final_audio # NoAudio

====
